---- MODULE Spec2Model ----
(***************************************************************************)
(* Model of the streaming core of thedude0606/options.                     *)
(*                                                                         *)
(*   Spec           StreamerSingleton (src/src/data/streamer_singleton.py):*)
(*                  caller threads running start / stop / set_client under *)
(*                  the class RLock, and the worker threads spawned by     *)
(*                  start(), which run without the lock.                   *)
(*   SpecStartStop  the same with a fixed client: start and stop only.     *)
(*   SpecNew        the construction of the singleton by get_instance.     *)
(*   SpecRT         RealTimeIntegration over data_manager.realtime_data    *)
(*                  (src/src/dashboard/realtime_integration.py,            *)
(*                  src/src/data/realtime.py, src/src/data/manager.py).    *)
(***************************************************************************)
EXTENDS Integers, FiniteSets, Sequences, TLC

\* ------------------------------------------------------------- bounds
\* Threads of the host application calling the public methods.
NumCallers == 2
\* Worker threads start() may create in one run.
MaxWorkers == 2
\* start / stop / set_client calls made in one run of Spec.
MaxOps == 3
\* get_instance calls made in one run of SpecNew.
MaxGets == 4
\* Longest symbol list and longest data-type list handed to start_streaming.
MaxLen == 2
\* Calls of RealTimeIntegration.start_streaming and stop_streaming.
MaxCalls == 2
\* Restarts of the stream a monitor thread makes before the model stops
\* counting them.
MaxRestarts == 2

\* Python's None for a thread / event-loop / instance reference.
NoRef == 0
\* Python's None for a client or a transport reference.
NoneS == "None"

\* Ticker symbols and data types handed to start_streaming.
Symbols == {"AAPL", "MSFT"}
Fields == {"QUOTE", "OPTION"}
\* Lists of at most MaxLen symbols / data types, repetitions included.
SymbolLists == UNION {[1..n -> Symbols] : n \in 0..MaxLen}
FieldLists == UNION {[1..n -> Fields] : n \in 0..MaxLen}
\* realtime.py line 358: the key under which a subscription is recorded.
Key(sym, field) == sym \o "_" \o field
Keys == {Key(p[1], p[2]) : p \in Symbols \X Fields}

Callers == 1..NumCallers
Workers == 1..MaxWorkers

\* The clients handed to the singleton: None, a client without a `stream`
\* attribute, a client whose stream.start() raises, and two working clients.
\* The transport of a working client c is its stream attribute, named c.
GoodClients == {"A", "B"}
Clients == {NoneS, "bare", "raising"} \cup GoodClients

VARIABLES
    \* ---- StreamerSingleton class / instance state
    instance,        \* cls._instance: NoRef or the id of the object
    nConstructed,    \* number of objects super().__new__ has built
    initialized,     \* _initialized
    client,          \* _client
    is_running,      \* _is_running
    streamer,        \* _streamer: NoneS or a transport
    thread,          \* _thread: NoRef or a worker
    event_loop,      \* _event_loop: NoRef or the worker owning the loop
    heartbeatFresh,  \* time.time() - _last_heartbeat <= 30
    lockOwner,       \* owner of cls._lock (an RLock), NoRef if free
    lockDepth,       \* RLock recursion depth
    \* ---- caller threads
    pc,              \* position of each caller
    outer,           \* the public method whose body called stop()/start()
    arg,             \* argument of the call in progress
    handle,          \* what get_instance returned to the caller
    result,          \* what the last start() to return gave its caller
    afterStop,       \* the last public call completed on the singleton was stop()
    sawAlive,        \* start(): the worker found alive at line 91
    joinTimedOut,    \* the join(timeout=2.0) of the call in progress elapsed
    stopReport,      \* what the last stop() returned
    raised,          \* an exception escaped the caller's last call
    onlyStarts,      \* no stop() or set_client() has been called so far
    opsLeft,         \* remaining public calls
    timely,          \* every sleep or join timeout so far elapsed with no
                     \* worker in the middle of straight-line code
    \* ---- worker threads
    wpc,             \* position of each worker
    wlocal,          \* the value _initialize_streamer returned to the worker
    \* ---- transports
    conns,           \* per transport: start() calls since its last stop()
    \* ---- RealTimeIntegration
    streaming_active,     \* streaming_active
    streaming_symbols,    \* streaming_symbols
    last_update,          \* per symbol: no entry, a recent one, an old one
    rt_monitors,          \* live threads running _monitor_streaming
    rt_result,            \* the last public call made and what it returned
    \* ---- data_manager.realtime_data
    rt_backend,           \* the class of the object behind realtime_data
    rt_client,            \* RealTimeDataStreamer.client
    rt_streamer,          \* RealTimeDataStreamer.streamer
    active_subscriptions, \* RealTimeDataStreamer.active_subscriptions
    data_handlers,        \* RealTimeDataStreamer.data_handlers: per data
                          \* type, the list of registered callbacks
    subs_issued,          \* per key: calls of the transport's subscribe
                          \* primitive since the last stop_streaming
    requested,            \* the (symbol, data type) pairs handed to
                          \* start_streaming since the last stop_streaming
    rt_restarts,          \* restarts of the stream made by monitor threads
    tick,                 \* the last message handed to quote_handler or
                          \* option_handler and the callbacks it reached
    message,              \* a message of the stream, as a dict
    data,                 \* the dict a handler builds from the message
    processed,            \* the items of a batch handed on to the quote
                          \* and option handlers, and by which handler
    price_data,           \* RealTimeHandler.price_data: symbol -> points
    volume_data,          \* RealTimeHandler.volume_data: symbol -> points
    hpc,                  \* where the thread inside
                          \* RealTimeHandler.handle_quote_update stands
    figure,               \* what the last figure builder call read
    ticks_in,             \* quote ticks so far, per symbol
    received,             \* the quote ticks in the order the transport
                          \* delivered them
    reached,              \* the ticks each handler of the chain was
                          \* called with, in order
    subscribers,          \* the threads inside
                          \* RealTimeDataStreamer.start_streaming
    dashboard,            \* the Dashboard's realtime_active flag and the
                          \* `disabled` property of its update interval
    transport             \* the streamer object get_streamer returns:
                          \* the methods it has, whether start() was
                          \* called on it, and the data types the
                          \* latest start_streaming tried to subscribe

svars == <<instance, nConstructed, initialized, client, is_running, streamer,
           thread, event_loop, heartbeatFresh, lockOwner, lockDepth>>
cvars == <<pc, outer, arg, handle, result, afterStop, sawAlive, joinTimedOut,
           stopReport, raised, onlyStarts, opsLeft, timely>>
wvars == <<wpc, wlocal>>
tvars == <<conns>>
bvars == <<price_data, volume_data, hpc, figure, ticks_in, received, reached,
          dashboard>>
dvars == <<tick, message, data, processed, bvars, subscribers, transport>>
rtvars == <<streaming_active, streaming_symbols, last_update, rt_monitors,
            rt_result, rt_backend, rt_client, rt_restarts, dvars, rt_streamer,
            active_subscriptions, data_handlers, subs_issued, requested>>
vars == <<svars, cvars, wvars, tvars, rtvars>>

\* threading.Thread.is_alive()
Alive(w) == w # NoRef /\ wpc[w] \notin {"unborn", "done"}
LiveWorkers == {w \in Workers : Alive(w)}
FreshWorkers == {w \in Workers : wpc[w] = "unborn"}

\* A message without keys, and the dict of a handler that has built none.
NoMessage == [k \in {} |-> 0]
NoData == [k \in {} |-> 0]

\* Threads that call RealTimeDataStreamer.start_streaming at the same
\* time: callers of the data manager and the monitor's restart.
NumSubscribers == 2
SubThreads == 1..NumSubscribers
NotSubscribing == [at |-> "idle", todo |-> <<>>]

\* The method names start_streaming looks for on the streamer object
\* (realtime.py lines 368-374 for QUOTE, 396-402 for OPTION).
QuoteSubs == {"level_one_equity_subs", "quote_subs"}
QuoteKnown == QuoteSubs \cup {"add_level_one_equity_handler"}
OptionSubs == {"level_one_option_subs", "option_subs"}
OptionKnown == OptionSubs \cup {"add_level_one_option_handler"}
\* Streamer objects told apart by one method of each kind: a quote
\* primitive, a quote handler hook, an option primitive, start.
TransportShapes ==
    SUBSET {"quote_subs", "add_level_one_equity_handler",
            "level_one_option_subs", "start"}
\* A streamer object with the given methods, not started.
TransportWith(methods) ==
    [methods |-> methods, started |-> FALSE, asked |-> {}]
\* The methods of a transport that has the first subscribe primitive of
\* each data type.
SubscribingMethods ==
    {"level_one_equity_subs", "level_one_option_subs", "start"}

\* The handlers a quote tick passes on its way to the buffers.
ChainHandlers == {"quote_handler", "message_handler", "handle_quote_update",
                  "RealTimeHandler"}

\* RealTimeHandler.__init__, realtime_handler.py lines 33-35: empty dicts;
\* no thread inside a handler, no figure built, no tick yet.
EmptyDict == [k \in {} |-> <<>>]
HandlerIdle == [at |-> "idle", symbol |-> "none"]
NoFigure == [of |-> "none", over |-> FALSE]
\* Dashboard.__init__, dashboard.py line 42, and the layout's Interval,
\* line 190: not streaming, the interval disabled.
DashboardOff == [realtime_active |-> FALSE, interval_disabled |-> TRUE]

BInitial ==
    /\ price_data = EmptyDict
    /\ volume_data = EmptyDict
    /\ hpc = HandlerIdle
    /\ figure = NoFigure
    /\ ticks_in = [s \in Symbols |-> 0]
    /\ received = <<>>
    /\ reached = [h \in ChainHandlers |-> <<>>]
    /\ dashboard = DashboardOff

\* No batch handled yet.
NoBatch == [by |-> "none", items |-> <<>>]

\* No message dispatched yet.
NoTick == [n |-> 0, field |-> "none", symbol |-> FALSE, raisers |-> {},
           delivered |-> <<>>, raised |-> FALSE,
           failed |-> [f \in Fields |-> FALSE]]

\* RealTimeIntegration.__init__ (realtime_integration.py lines 31-38) and
\* RealTimeDataStreamer.__init__ (realtime.py lines 27-31).
RTFieldsBut ==
    /\ streaming_active = FALSE
    /\ streaming_symbols = <<>>
    /\ last_update = [s \in Symbols |-> "none"]
    /\ rt_monitors = 0
    /\ rt_restarts = 0
    /\ rt_result = <<"none", "none">>
    /\ rt_streamer = NoneS
    /\ active_subscriptions = {}
    /\ data_handlers = [f \in Fields |-> <<>>]
    /\ subs_issued = [k \in Keys |-> 0]
    /\ requested = {}
    /\ tick = NoTick
    /\ data = NoData
    /\ processed = NoBatch
    /\ BInitial

\* The same with a streamer object that has the subscribe primitives and
\* no thread inside start_streaming.
RTFields ==
    /\ RTFieldsBut
    /\ subscribers = [t \in SubThreads |-> NotSubscribing]
    /\ transport = TransportWith(SubscribingMethods)

RTInitial ==
    /\ RTFields
    /\ message = NoMessage

\* The process before anything has touched the class: the class attributes
\* of lines 23-32.
InitNew ==
    /\ instance = NoRef /\ nConstructed = 0 /\ initialized = FALSE
    /\ client = NoneS /\ is_running = FALSE /\ streamer = NoneS
    /\ thread = NoRef /\ event_loop = NoRef /\ heartbeatFresh = FALSE
    /\ lockOwner = NoRef /\ lockDepth = 0
    /\ pc = [c \in Callers |-> "idle"]
    /\ outer = [c \in Callers |-> "none"]
    /\ arg = [c \in Callers |-> NoneS]
    /\ handle = [c \in Callers |-> NoRef]
    /\ result = NoneS
    /\ afterStop = FALSE
    /\ sawAlive = [c \in Callers |-> NoRef]
    /\ joinTimedOut = [c \in Callers |-> FALSE]
    /\ stopReport = [c \in Callers |-> NoneS]
    /\ raised = [c \in Callers |-> FALSE]
    /\ onlyStarts = TRUE
    /\ opsLeft = MaxGets
    /\ timely = TRUE
    /\ wpc = [w \in Workers |-> "unborn"]
    /\ wlocal = [w \in Workers |-> NoneS]
    /\ conns = [t \in GoodClients |-> 0]
    /\ RTInitial
    /\ rt_backend = "StreamerSingleton"
    /\ rt_client = NoneS

\* The singleton as DataManager.__init__ leaves it (manager.py line 34):
\* constructed and initialised by get_instance(client), for any client,
\* with the handle in the hands of every caller thread.
InitSingletonCalls(n) ==
    /\ instance = 1 /\ nConstructed = 1 /\ initialized = TRUE
    /\ client \in Clients /\ is_running = FALSE /\ streamer = NoneS
    /\ thread = NoRef /\ event_loop = NoRef /\ heartbeatFresh = FALSE
    /\ lockOwner = NoRef /\ lockDepth = 0
    /\ pc = [c \in Callers |-> "idle"]
    /\ outer = [c \in Callers |-> "none"]
    /\ arg = [c \in Callers |-> NoneS]
    /\ handle = [c \in Callers |-> 1]
    /\ result = NoneS
    /\ afterStop = FALSE
    /\ sawAlive = [c \in Callers |-> NoRef]
    /\ joinTimedOut = [c \in Callers |-> FALSE]
    /\ stopReport = [c \in Callers |-> NoneS]
    /\ raised = [c \in Callers |-> FALSE]
    /\ onlyStarts = TRUE
    /\ opsLeft = n
    /\ timely = TRUE
    /\ wpc = [w \in Workers |-> "unborn"]
    /\ wlocal = [w \in Workers |-> NoneS]
    /\ conns = [t \in GoodClients |-> 0]

\* The singleton with MaxOps calls of its methods to come.
InitSingleton == InitSingletonCalls(MaxOps)

\* The program as wired: data_manager.realtime_data is the singleton
\* (manager.py line 34) and no RealTimeDataStreamer exists.
Init ==
    /\ InitSingleton
    /\ RTInitial
    /\ rt_backend = "StreamerSingleton"
    /\ rt_client = NoneS

\* A RealTimeIntegration over a data manager whose realtime_data is either
\* the singleton (manager.py line 34) or a RealTimeDataStreamer built on the
\* manager's client, the class whose start_streaming / stop_streaming
\* RealTimeIntegration calls.
InitRT ==
    /\ InitSingletonCalls(MaxCalls)
    /\ RTInitial
    /\ rt_backend \in {"StreamerSingleton", "RealTimeDataStreamer"}
    /\ rt_client = client

\* A worker inside a call that waits on the network: _kill_other_connections
\* (lines 121-122 and 241-242) for a client that is an object,
\* streamer.start() (line 179), streamer.stop() (line 236) for a transport.
Blocking(w) ==
    \/ wpc[w] \in {"init", "rc_init"} /\ client # NoneS
    \/ wpc[w] \in {"starting", "rc_starting"}
    \/ wpc[w] = "rc_stop" /\ streamer # NoneS
\* A worker turning in its loop with nothing to do (lines 132-137).
IdleInLoop(w) == wpc[w] = "loop" /\ is_running /\ heartbeatFresh
\* A live worker in the middle of straight-line code.
AnyBusy == \E w \in LiveWorkers : ~Blocking(w) /\ ~IdleInLoop(w)

\* ------------------------------------------------------------ the lock
\* `with self._lock:` entered by caller c (RLock: free, or already c's).
CanAcquire(c) == lockOwner \in {NoRef, c}
Acquire(c) == /\ lockOwner' = c
              /\ lockDepth' = lockDepth + 1
Release(c) == /\ lockDepth' = lockDepth - 1
              /\ lockOwner' = IF lockDepth = 1 THEN NoRef ELSE c

\* ------------------------------------------------------- get_instance
\* __new__'s test `cls._instance is None`, line 39.
NeedsNewAlways == TRUE
NeedsNew == instance = NoRef

\* get_instance -> cls(client) -> __new__, lines 38-43, inside the lock.
GetInstanceNew(c) ==
    /\ pc[c] = "idle" /\ opsLeft > 0 /\ CanAcquire(c)
    /\ \E cl \in Clients : arg' = [arg EXCEPT ![c] = cl]
    /\ IF NeedsNew
         THEN /\ nConstructed' = nConstructed + 1
              /\ instance' = nConstructed + 1
              /\ initialized' = FALSE
         ELSE UNCHANGED <<nConstructed, instance, initialized>>
    /\ handle' = [handle EXCEPT ![c] = NoRef]
    /\ pc' = [pc EXCEPT ![c] = "gi_init"]
    /\ opsLeft' = opsLeft - 1
    /\ UNCHANGED <<client, is_running, streamer, thread, event_loop,
                   heartbeatFresh, lockOwner, lockDepth>>
    /\ UNCHANGED <<outer, result, afterStop, sawAlive, joinTimedOut,
                   stopReport, raised, onlyStarts, timely>>
    /\ UNCHANGED <<wvars, tvars, rtvars>>

\* The end of a public method for caller c: back to idle, with the record of
\* the completed call; the call's temporaries are gone.
EndCall(c, op) ==
    /\ pc' = [pc EXCEPT ![c] = "idle"]
    /\ afterStop' = (op = "stop")
    /\ outer' = [outer EXCEPT ![c] = "none"]
    /\ sawAlive' = [sawAlive EXCEPT ![c] = NoRef]
    /\ joinTimedOut' = [joinTimedOut EXCEPT ![c] = FALSE]

\* __init__, lines 52-62, on the object __new__ returned, inside the lock;
\* then get_instance returns it.
GetInstanceInit(c) ==
    /\ pc[c] = "gi_init" /\ CanAcquire(c)
    /\ IF initialized
         THEN UNCHANGED <<client, initialized, is_running, heartbeatFresh>>
         ELSE /\ client' = arg[c]
              /\ initialized' = TRUE
              /\ is_running' = FALSE
              /\ heartbeatFresh' = FALSE
    /\ handle' = [handle EXCEPT ![c] = instance]
    /\ arg' = [arg EXCEPT ![c] = NoneS]
    /\ EndCall(c, "get_instance")
    /\ UNCHANGED <<instance, nConstructed, streamer, thread, event_loop,
                   lockOwner, lockDepth>>
    /\ UNCHANGED <<result, stopReport, raised, onlyStarts, opsLeft, timely>>
    /\ UNCHANGED <<wvars, tvars, rtvars>>

\* -------------------------------------------------------------- start
\* A public call may begin: the caller holds the handle and calls remain.
MayCall(c) == pc[c] = "idle" /\ opsLeft > 0 /\ handle[c] # NoRef

\* start(), line 83: the test that makes a second start() return at once.
AlreadyRunningIgnored == FALSE
AlreadyRunning == is_running

\* start(), lines 82-88: take the lock; already running: return None at
\* once (line 85); otherwise set the flag.  Reached from idle (a public
\* call) or from set_client's body, which already holds the lock.
StartEnter(c) ==
    /\ MayCall(c) \/ pc[c] = "start_enter"
    /\ CanAcquire(c)
    /\ AlreadyRunning \/ FreshWorkers # {}
    /\ opsLeft' = IF pc[c] = "idle" THEN opsLeft - 1 ELSE opsLeft
    /\ IF AlreadyRunning
         THEN /\ result' = NoneS
              /\ lockOwner' = NoRef
              /\ lockDepth' = 0
              /\ EndCall(c, IF pc[c] = "idle" THEN "start" ELSE "set_client")
              /\ UNCHANGED is_running
         ELSE /\ is_running' = TRUE
              /\ Acquire(c)
              /\ pc' = [pc EXCEPT ![c] = "start_check"]
              /\ sawAlive' = [sawAlive EXCEPT ![c] = NoRef]
              /\ joinTimedOut' = [joinTimedOut EXCEPT ![c] = FALSE]
              /\ UNCHANGED <<result, afterStop, outer>>
    /\ UNCHANGED <<instance, nConstructed, initialized, client, streamer,
                   thread, event_loop, heartbeatFresh>>
    /\ UNCHANGED <<arg, handle, stopReport, raised, onlyStarts, timely>>
    /\ UNCHANGED <<wvars, tvars, rtvars>>

\* start(), lines 98-99: a new thread is created and started.
Spawn ==
    \E w \in FreshWorkers :
        /\ w = CHOOSE x \in FreshWorkers : \A y \in FreshWorkers : x <= y
        /\ thread' = w
        /\ wpc' = [wpc EXCEPT ![w] = "begin"]

\* start(), lines 91-99: an earlier thread that is still alive is told to
\* stop by clearing the flag and is then joined; with no such thread the
\* new one is created at once.
StartCheck(c) ==
    /\ pc[c] = "start_check"
    /\ IF Alive(thread)
         THEN /\ is_running' = FALSE
              /\ sawAlive' = [sawAlive EXCEPT ![c] = thread]
              /\ pc' = [pc EXCEPT ![c] = "start_join"]
              /\ UNCHANGED <<thread, wpc>>
         ELSE /\ Spawn
              /\ pc' = [pc EXCEPT ![c] = "start_sleep"]
              /\ UNCHANGED <<is_running, sawAlive>>
    /\ UNCHANGED <<instance, nConstructed, initialized, client, streamer,
                   event_loop, heartbeatFresh, lockOwner, lockDepth>>
    /\ UNCHANGED <<outer, arg, handle, result, afterStop, joinTimedOut,
                   stopReport, raised, onlyStarts, opsLeft, timely>>
    /\ UNCHANGED <<wlocal, tvars, rtvars>>

\* start(), lines 94-99: self._thread.join(timeout=2.0) returns when the
\* thread has exited or when two seconds have passed, whichever comes
\* first; the new thread is created and started whatever the join achieved.
StartJoin(c) ==
    /\ pc[c] = "start_join"
    /\ joinTimedOut' = [joinTimedOut EXCEPT ![c] = Alive(thread)]
    /\ Spawn
    /\ timely' = (timely /\ (Alive(thread) => ~AnyBusy))
    /\ pc' = [pc EXCEPT ![c] = "start_sleep"]
    /\ UNCHANGED <<instance, nConstructed, initialized, client, is_running,
                   streamer, event_loop, heartbeatFresh, lockOwner, lockDepth>>
    /\ UNCHANGED <<outer, arg, handle, result, afterStop, sawAlive,
                   stopReport, raised, onlyStarts, opsLeft>>
    /\ UNCHANGED <<wlocal, tvars, rtvars>>

\* start(), lines 103-105: after the half-second sleep, whatever the worker
\* has done by then, return self._streamer and leave the lock.  Inside
\* set_client this also ends set_client's `with` block.
StartReturn(c) ==
    /\ pc[c] = "start_sleep"
    /\ result' = streamer
    /\ timely' = (timely /\ ~AnyBusy)
    /\ lockOwner' = NoRef
    /\ lockDepth' = 0
    /\ EndCall(c, IF outer[c] = "set_client" THEN "set_client" ELSE "start")
    /\ UNCHANGED <<instance, nConstructed, initialized, client, is_running,
                   streamer, thread, event_loop, heartbeatFresh>>
    /\ UNCHANGED <<arg, handle, stopReport, raised, onlyStarts, opsLeft>>
    /\ UNCHANGED <<wvars, tvars, rtvars>>

\* --------------------------------------------------------------- stop
\* stop(), lines 336-338: take the lock and clear the flag.  Reached from
\* idle (a public call) or from set_client's body.
StopEnter(c) ==
    /\ MayCall(c) \/ pc[c] = "stop_enter"
    /\ CanAcquire(c)
    /\ Acquire(c)
    /\ is_running' = FALSE
    /\ opsLeft' = IF pc[c] = "idle" THEN opsLeft - 1 ELSE opsLeft
    /\ outer' = IF pc[c] = "idle" THEN [outer EXCEPT ![c] = "none"] ELSE outer
    /\ sawAlive' = [sawAlive EXCEPT ![c] = NoRef]
    /\ joinTimedOut' = [joinTimedOut EXCEPT ![c] = FALSE]
    /\ raised' = [raised EXCEPT ![c] = FALSE]
    /\ onlyStarts' = FALSE
    /\ pc' = [pc EXCEPT ![c] = "stop_streamer"]
    /\ UNCHANGED <<instance, nConstructed, initialized, client, streamer,
                   thread, event_loop, heartbeatFresh>>
    /\ UNCHANGED <<arg, handle, result, afterStop, stopReport, timely>>
    /\ UNCHANGED <<wvars, tvars, rtvars>>

\* The transport's stop(): its connections are closed.
TransportStop(t) == conns' = [conns EXCEPT ![t] = 0]

\* stop(), lines 341-345: whether the attempt to stop the transport lets an
\* exception escape: the call is made only on a transport that is not None
\* and sits in a try / bare except.
StopRaisesUnguarded(s) == s = NoneS
StopRaises(s) == FALSE

\* stop(), lines 341-345: the transport's stop primitive on self._streamer.
StopStreamer(c) ==
    /\ pc[c] = "stop_streamer"
    /\ IF streamer # NoneS THEN TransportStop(streamer) ELSE UNCHANGED tvars
    /\ raised' = [raised EXCEPT ![c] = StopRaises(streamer)]
    /\ pc' = [pc EXCEPT ![c] = "stop_join"]
    /\ UNCHANGED svars
    /\ UNCHANGED <<outer, arg, handle, result, afterStop, sawAlive, joinTimedOut,
                   stopReport, onlyStarts, opsLeft, timely>>
    /\ UNCHANGED <<wvars, rtvars>>

\* stop(), lines 348-352: join(timeout=2.0) on a thread that is alive
\* returns when it has exited or when two seconds have passed; then the
\* transport and thread references are dropped.
StopJoin(c) ==
    /\ pc[c] = "stop_join"
    /\ joinTimedOut' = [joinTimedOut EXCEPT ![c] = Alive(thread)]
    /\ streamer' = NoneS
    /\ thread' = NoRef
    /\ timely' = (timely /\ (Alive(thread) => ~AnyBusy))
    /\ pc' = [pc EXCEPT ![c] = "stop_exit"]
    /\ UNCHANGED <<instance, nConstructed, initialized, client, is_running,
                   event_loop, heartbeatFresh, lockOwner, lockDepth>>
    /\ UNCHANGED <<outer, arg, handle, result, afterStop, sawAlive,
                   stopReport, raised, onlyStarts, opsLeft>>
    /\ UNCHANGED <<wvars, tvars, rtvars>>

\* What stop() hands back to its caller: the method has no return statement,
\* whether or not the join timed out.
StopReturnValue(timedOut) == NoneS

\* stop(), lines 353-355: clear the loop reference, leave the lock, return.
\* Inside set_client the next statement is self.start().
StopExit(c) ==
    /\ pc[c] = "stop_exit"
    /\ event_loop' = NoRef
    /\ stopReport' = [stopReport EXCEPT ![c] = StopReturnValue(joinTimedOut[c])]
    /\ Release(c)
    /\ IF outer[c] = "set_client"
         THEN /\ pc' = [pc EXCEPT ![c] = "start_enter"]
              /\ UNCHANGED <<afterStop, outer, sawAlive, joinTimedOut>>
         ELSE EndCall(c, "stop")
    /\ UNCHANGED <<instance, nConstructed, initialized, client, is_running,
                   streamer, thread, heartbeatFresh>>
    /\ UNCHANGED <<arg, handle, result, raised, onlyStarts, opsLeft, timely>>
    /\ UNCHANGED <<wvars, tvars, rtvars>>

\* --------------------------------------------------------- set_client
\* set_client(n), lines 386-393: store the client; if running, stop() and
\* start() follow inside the same `with` block, otherwise return.
SetClient(c) ==
    /\ MayCall(c)
    /\ CanAcquire(c)
    /\ is_running => FreshWorkers # {}
    /\ \E n \in Clients : client' = n
    /\ UNCHANGED arg
    /\ opsLeft' = opsLeft - 1
    /\ onlyStarts' = FALSE
    /\ IF is_running
         THEN /\ Acquire(c)
              /\ outer' = [outer EXCEPT ![c] = "set_client"]
              /\ pc' = [pc EXCEPT ![c] = "stop_enter"]
              /\ UNCHANGED <<afterStop, sawAlive, joinTimedOut>>
         ELSE /\ EndCall(c, "set_client")
              /\ UNCHANGED <<lockOwner, lockDepth>>
    /\ UNCHANGED <<instance, nConstructed, initialized, is_running, streamer,
                   thread, event_loop, heartbeatFresh>>
    /\ UNCHANGED <<handle, result, stopReport, raised, timely>>
    /\ UNCHANGED <<wvars, tvars, rtvars>>

\* ------------------------------------------------------------- worker
\* _initialize_streamer(), lines 165-173: what it finds on the client.  None
\* for a missing client and for one without a `stream` attribute; otherwise
\* the client's stream, named after the client.
ClientStream(cl) == IF cl \in GoodClients \cup {"raising"} THEN cl ELSE NoneS

\* _initialize_streamer(), lines 179-188: the value it returns once
\* streamer.start() has been called on that stream: None when start()
\* raises, otherwise the stream.
InitializeStreamer(cl) == IF cl \in GoodClients THEN cl ELSE NoneS

\* _run_streamer_thread, lines 115-122: the thread's event loop is created
\* and published; _kill_other_connections changes nothing of the singleton.
WBegin(w) ==
    /\ wpc[w] = "begin"
    /\ event_loop' = w
    /\ wpc' = [wpc EXCEPT ![w] = "init"]
    /\ UNCHANGED <<instance, nConstructed, initialized, client, is_running,
                   streamer, thread, heartbeatFresh, lockOwner, lockDepth>>
    /\ UNCHANGED <<cvars, wlocal, tvars, rtvars>>

\* The call of _initialize_streamer at line 124 (from "init") or at line 245
\* (from "rc_init"), up to the call of streamer.start(): once
\* _kill_other_connections is over, _client is read, its stream is taken
\* and the heartbeat handler is added (line 176, setting _last_heartbeat at
\* line 221).  Without a stream the function returns None at once.
WInitialize(w) ==
    /\ wpc[w] \in {"init", "rc_init"}
    /\ wlocal' = [wlocal EXCEPT ![w] = ClientStream(client)]
    /\ heartbeatFresh' = (heartbeatFresh \/ ClientStream(client) # NoneS)
    /\ wpc' = [wpc EXCEPT ![w] =
                 IF ClientStream(client) = NoneS
                   THEN (IF wpc[w] = "init" THEN "assign" ELSE "rc_assign")
                   ELSE (IF wpc[w] = "init" THEN "starting" ELSE "rc_starting")]
    /\ UNCHANGED <<instance, nConstructed, initialized, client, is_running,
                   streamer, thread, event_loop, lockOwner, lockDepth>>
    /\ UNCHANGED <<cvars, tvars, rtvars>>

\* streamer.start() of line 179 returns or raises, and _initialize_streamer
\* returns the stream or None (lines 181-188).
WStreamerStart(w) ==
    /\ wpc[w] \in {"starting", "rc_starting"}
    /\ wlocal' = [wlocal EXCEPT ![w] = InitializeStreamer(wlocal[w])]
    /\ IF wlocal[w] \in GoodClients
         THEN conns' = [conns EXCEPT ![wlocal[w]] = @ + 1]
         ELSE UNCHANGED conns
    /\ wpc' = [wpc EXCEPT ![w] = IF wpc[w] = "starting" THEN "assign"
                                                         ELSE "rc_assign"]
    /\ UNCHANGED <<svars, cvars, rtvars>>

\* The assignment self._streamer = ... of line 124 or line 245.
WAssign(w) ==
    /\ wpc[w] \in {"assign", "rc_assign"}
    /\ streamer' = wlocal[w]
    /\ wpc' = [wpc EXCEPT ![w] = IF wpc[w] = "assign" THEN "check" ELSE "rc_check"]
    /\ UNCHANGED <<instance, nConstructed, initialized, client, is_running,
                   thread, event_loop, heartbeatFresh, lockOwner, lockDepth>>
    /\ UNCHANGED <<cvars, wlocal, tvars, rtvars>>

\* Where the worker goes when line 125 finds self._streamer None: line 128
\* returns, through the finally block.
AfterFailedInit == "finally"

\* _run_streamer_thread, lines 125-128: self._streamer is read again; None
\* ends the thread (through the finally block), otherwise the loop starts.
WCheck(w) ==
    /\ wpc[w] = "check"
    /\ IF streamer = NoneS
         THEN /\ is_running' = FALSE
              /\ wpc' = [wpc EXCEPT ![w] = AfterFailedInit]
         ELSE /\ wpc' = [wpc EXCEPT ![w] = "loop"]
              /\ UNCHANGED is_running
    /\ UNCHANGED <<instance, nConstructed, initialized, client, streamer,
                   thread, event_loop, heartbeatFresh, lockOwner, lockDepth>>
    /\ UNCHANGED <<cvars, wlocal, tvars, rtvars>>

\* Line 137: time.time() - self._last_heartbeat > 30.
HeartbeatIgnored == TRUE
HeartbeatTimedOut == ~heartbeatFresh

\* _run_streamer_thread, lines 132-139: one test of the loop condition and of
\* the heartbeat age.  A fresh heartbeat with the flag set is another turn
\* of the loop, which changes nothing.
WLoop(w) ==
    /\ wpc[w] = "loop"
    /\ ~is_running \/ HeartbeatTimedOut
    /\ wpc' = [wpc EXCEPT ![w] = IF ~is_running THEN "finally" ELSE "rc_stop"]
    /\ UNCHANGED <<svars, cvars, wlocal, tvars, rtvars>>

\* _reconnect, lines 234-242: stop the current transport, if any.
WReconnectStop(w) ==
    /\ wpc[w] = "rc_stop"
    /\ IF streamer # NoneS THEN TransportStop(streamer) ELSE UNCHANGED tvars
    /\ wpc' = [wpc EXCEPT ![w] = "rc_init"]
    /\ UNCHANGED <<svars, cvars, wlocal, rtvars>>

\* _reconnect, lines 246-250: a None transport clears the flag; the
\* heartbeat clock is reset; back to the loop.
WReconnectCheck(w) ==
    /\ wpc[w] = "rc_check"
    /\ is_running' = IF streamer = NoneS THEN FALSE ELSE is_running
    /\ heartbeatFresh' = TRUE
    /\ wpc' = [wpc EXCEPT ![w] = "loop"]
    /\ UNCHANGED <<instance, nConstructed, initialized, client, streamer,
                   thread, event_loop, lockOwner, lockDepth>>
    /\ UNCHANGED <<cvars, wlocal, tvars, rtvars>>

\* _run_streamer_thread, lines 145-152: the finally block, then the thread
\* ends.
WFinally(w) ==
    /\ wpc[w] = "finally"
    /\ event_loop' = NoRef
    /\ is_running' = FALSE
    /\ wpc' = [wpc EXCEPT ![w] = "done"]
    /\ UNCHANGED <<instance, nConstructed, initialized, client, streamer,
                   thread, heartbeatFresh, lockOwner, lockDepth>>
    /\ UNCHANGED <<cvars, wlocal, tvars, rtvars>>

\* More than 30 seconds pass without a heartbeat message (line 137).
HeartbeatExpire ==
    /\ heartbeatFresh
    /\ LiveWorkers # {}
    /\ heartbeatFresh' = FALSE
    /\ UNCHANGED <<instance, nConstructed, initialized, client, is_running,
                   streamer, thread, event_loop, lockOwner, lockDepth>>
    /\ UNCHANGED <<cvars, wvars, tvars, rtvars>>

\* A heartbeat notification reaches heartbeat_handler (lines 202-212) on a
\* started transport, which stamps _last_heartbeat.
HeartbeatArrive ==
    /\ ~heartbeatFresh
    /\ \E t \in GoodClients : conns[t] > 0
    /\ heartbeatFresh' = TRUE
    /\ UNCHANGED <<instance, nConstructed, initialized, client, is_running,
                   streamer, thread, event_loop, lockOwner, lockDepth>>
    /\ UNCHANGED <<cvars, wvars, tvars, rtvars>>

CallerStep(c) ==
    \/ StartEnter(c)
    \/ StartCheck(c)
    \/ StartJoin(c)
    \/ StartReturn(c)
    \/ StopEnter(c)
    \/ StopStreamer(c)
    \/ StopJoin(c)
    \/ StopExit(c)
    \/ SetClient(c)

WorkerStep(w) ==
    \/ WBegin(w)
    \/ WInitialize(w)
    \/ WStreamerStart(w)
    \/ WAssign(w)
    \/ WCheck(w)
    \/ WLoop(w)
    \/ WReconnectStop(w)
    \/ WReconnectCheck(w)
    \/ WFinally(w)

Next ==
    \/ \E c \in Callers : CallerStep(c)
    \/ \E w \in Workers : WorkerStep(w)
    \/ HeartbeatExpire
    \/ HeartbeatArrive

\* The singleton in use: threads calling start / stop / set_client, and the
\* workers.
Spec == Init /\ [][Next]_vars

NextNew ==
    \E c \in Callers :
        \/ GetInstanceNew(c)
        \/ GetInstanceInit(c)

\* The construction of the singleton: threads calling get_instance.
SpecNew == InitNew /\ [][NextNew]_vars

NextStartStop ==
    \/ \E c \in Callers :
          \/ StartEnter(c)
          \/ StartCheck(c)
          \/ StartJoin(c)
          \/ StartReturn(c)
          \/ StopEnter(c)
          \/ StopStreamer(c)
          \/ StopJoin(c)
          \/ StopExit(c)
    \/ \E w \in Workers : WorkerStep(w)
    \/ HeartbeatExpire
    \/ HeartbeatArrive

\* The singleton with a fixed client: threads calling start and stop, and
\* the workers.
SpecStartStop == Init /\ [][NextStartStop]_vars

\* ----------------------------------------------- RealTimeDataStreamer
\* The `fields` argument: not given (None), or a list of data types.
FieldArgs == {<<FALSE, <<>>>>} \cup {<<TRUE, F>> : F \in FieldLists}
\* realtime.py lines 342-344: the data types the handler is registered
\* for: `fields if fields else ['QUOTE']`.
HandlerFields(f) == IF f[1] /\ f[2] # <<>> THEN f[2] ELSE <<"QUOTE">>
\* realtime.py lines 353-355: the data types subscribed.
SubscribedFields(f) == IF f[1] THEN f[2] ELSE <<"QUOTE">>

\* The callbacks handed to start_streaming: none, or the message_handler
\* closure of RealTimeIntegration.start_streaming.
NoHandler == "None"
MessageHandler == "message_handler"

\* Whether the object behind data_manager.realtime_data has the methods
\* start_streaming and stop_streaming: RealTimeDataStreamer defines them
\* (realtime.py lines 324 and 437), StreamerSingleton does not, and the
\* AttributeError is caught by the caller's `except Exception`.
HasStreaming == rt_backend = "RealTimeDataStreamer"

\* RealTimeDataStreamer.get_streamer, realtime.py lines 63-75, with
\* initialize_streamer, lines 45-55: the transport kept, or else the
\* client's stream, or None.
GetStreamer == IF rt_streamer # NoneS THEN rt_streamer
                                       ELSE ClientStream(rt_client)

\* register_handler, realtime.py lines 312-315: append to the list of the
\* data type.
RegisterHandler(handlers, field, cb) ==
    [handlers EXCEPT ![field] = Append(@, cb)]

\* realtime.py lines 341-344: the handler registered once per entry of the
\* list of data types.
RECURSIVE RegisterAll(_, _, _)
RegisterAll(handlers, fieldList, cb) ==
    IF fieldList = <<>> THEN handlers
    ELSE RegisterAll(RegisterHandler(handlers, Head(fieldList), cb),
                     Tail(fieldList), cb)

\* realtime.py lines 356-357: the (symbol, data type) pairs in the order
\* the two nested loops visit them.
PairList(symList, fieldList) ==
    [i \in 1..(Len(symList) * Len(fieldList)) |->
        <<symList[((i - 1) \div Len(fieldList)) + 1],
          fieldList[((i - 1) % Len(fieldList)) + 1]>>]
PairSet(symList, fieldList) ==
    {PairList(symList, fieldList)[i] :
        i \in 1..(Len(symList) * Len(fieldList))}

\* realtime.py line 359: the test that skips a pair already subscribed.
AlreadySubscribedNever(active, k) == FALSE
AlreadySubscribed(active, k) == k \in active

\* realtime.py line 422: the pair is recorded as active.
RecordNothing(active, k) == active
RecordSubscription(active, k) == active \cup {k}

\* realtime.py lines 356-427: for each pair not yet active, one call of the
\* transport's subscribe primitive (level_one_equity_subs / quote_subs for
\* QUOTE, level_one_option_subs / option_subs for OPTION), whose exceptions
\* are caught, and then the pair is recorded.
RECURSIVE SubscribeAll(_, _, _)
SubscribeAll(pairs, active, issued) ==
    IF pairs = <<>> THEN [active |-> active, issued |-> issued]
    ELSE LET k == Key(Head(pairs)[1], Head(pairs)[2])
         IN IF AlreadySubscribed(active, k)
              THEN SubscribeAll(Tail(pairs), active, issued)
              ELSE SubscribeAll(Tail(pairs),
                                RecordSubscription(active, k),
                                [issued EXCEPT ![k] = @ + 1])

\* RealTimeDataStreamer.start_streaming, realtime.py lines 337-431: register
\* the handler, get the transport, subscribe every symbol / data type pair
\* not yet subscribed.  It returns True unless there is no transport.
BackendStartOk == GetStreamer # NoneS
BackendStart(syms, f, handler) ==
    LET after == SubscribeAll(PairList(syms, SubscribedFields(f)),
                              active_subscriptions, subs_issued)
    IN /\ data_handlers' =
              IF handler # NoHandler
                THEN RegisterAll(data_handlers, HandlerFields(f), handler)
                ELSE data_handlers
       /\ rt_streamer' = GetStreamer
       /\ active_subscriptions' = IF BackendStartOk THEN after.active
                                                    ELSE active_subscriptions
       /\ subs_issued' = IF BackendStartOk THEN after.issued ELSE subs_issued
       /\ requested' = IF BackendStartOk
                         THEN requested \cup PairSet(syms, SubscribedFields(f))
                         ELSE requested

\* RealTimeDataStreamer.stop_streaming, realtime.py lines 444-464: with a
\* transport, stop it and forget every subscription; it returns True unless
\* there is no transport.
BackendStop ==
    /\ rt_streamer' = GetStreamer
    /\ IF GetStreamer \in GoodClients THEN TransportStop(GetStreamer)
                                      ELSE UNCHANGED conns
    /\ active_subscriptions' = IF BackendStartOk THEN {}
                                                 ELSE active_subscriptions
    /\ subs_issued' = IF BackendStartOk THEN [k \in Keys |-> 0]
                                        ELSE subs_issued
    /\ requested' = IF BackendStartOk THEN {} ELSE requested

\* A direct call of RealTimeDataStreamer.start_streaming(symbols, fields,
\* handler), as DataManager.start_streaming makes it (manager.py line 163).
DSStartStreaming ==
    /\ opsLeft > 0
    /\ opsLeft' = opsLeft - 1
    /\ \E syms \in SymbolLists, f \in FieldArgs,
          h \in {NoHandler, MessageHandler} :
          /\ BackendStart(syms, f, h)
          /\ rt_result' = <<"start_streaming",
                            IF BackendStartOk THEN "True" ELSE "False">>
    /\ UNCHANGED <<streaming_active, streaming_symbols, last_update,
                   rt_monitors, rt_backend, rt_client, rt_restarts, dvars>>
    /\ UNCHANGED <<pc, outer, arg, handle, result, afterStop, sawAlive,
                   joinTimedOut, stopReport, raised, onlyStarts, timely>>
    /\ UNCHANGED <<svars, wvars, tvars>>

\* A direct call of RealTimeDataStreamer.stop_streaming(), as
\* DataManager.stop_streaming makes it (manager.py line 172).
DSStopStreaming ==
    /\ opsLeft > 0
    /\ opsLeft' = opsLeft - 1
    /\ BackendStop
    /\ rt_result' = <<"stop_streaming",
                      IF BackendStartOk THEN "True" ELSE "False">>
    /\ UNCHANGED <<streaming_active, streaming_symbols, last_update,
                   rt_monitors, rt_backend, rt_client, rt_restarts, dvars, data_handlers>>
    /\ UNCHANGED <<pc, outer, arg, handle, result, afterStop, sawAlive,
                   joinTimedOut, stopReport, raised, onlyStarts, timely>>
    /\ UNCHANGED <<svars, wvars>>

\* ------------------------------------------------ RealTimeIntegration
\* What RealTimeIntegration.start_streaming returns when streaming is
\* already active (realtime_integration.py line 159).
AlreadyActiveResult == "False"

\* RealTimeIntegration.start_streaming(symbols, fields),
\* realtime_integration.py lines 155-222.
RTStart(syms, f) ==
    /\ opsLeft > 0
    /\ opsLeft' = opsLeft - 1
    /\   IF streaming_active
           THEN /\ rt_result' = <<"start_streaming", AlreadyActiveResult>>
                /\ UNCHANGED <<streaming_active, streaming_symbols,
                               rt_monitors, rt_streamer,
                               active_subscriptions, data_handlers,
                               subs_issued, requested>>
           ELSE /\ streaming_symbols' = syms
                /\ IF HasStreaming
                     THEN /\ BackendStart(syms, f, MessageHandler)
                          /\ streaming_active' = BackendStartOk
                          /\ rt_monitors' = IF BackendStartOk
                                              THEN rt_monitors + 1
                                              ELSE rt_monitors
                          /\ rt_result' = <<"start_streaming",
                                            IF BackendStartOk THEN "True"
                                                              ELSE "False">>
                     ELSE /\ rt_result' = <<"start_streaming", "False">>
                          /\ UNCHANGED <<streaming_active, rt_monitors,
                                         rt_streamer, active_subscriptions,
                                         data_handlers, subs_issued,
                                         requested>>
    /\ UNCHANGED <<last_update, rt_backend, rt_client, rt_restarts>>
    /\ UNCHANGED <<pc, outer, arg, handle, result, afterStop, sawAlive,
                   joinTimedOut, stopReport, raised, onlyStarts, timely>>
    /\ UNCHANGED <<svars, wvars, tvars>>

\* A call of RealTimeIntegration.start_streaming with any symbols and
\* fields.
RTStartStreaming ==
    /\ \E syms \in SymbolLists, f \in FieldArgs : RTStart(syms, f)
    /\ UNCHANGED dvars

\* realtime_integration.py line 265: self.last_update = {}.
KeepUpdates == last_update
ForgetUpdates == [s \in Symbols |-> "none"]

\* RealTimeIntegration.stop_streaming(), realtime_integration.py lines
\* 254-276, over RealTimeDataStreamer.stop_streaming.  When the transport's
\* stop() raises, realtime.py lines 460-464 return False before the
\* active set is cleared.
RTStop(raises) ==
    /\ opsLeft > 0
    /\ opsLeft' = opsLeft - 1
    /\ IF streaming_active /\ HasStreaming /\ GetStreamer # NoneS /\ ~raises
         THEN /\ BackendStop
              /\ streaming_active' = FALSE
              /\ streaming_symbols' = <<>>
              /\ last_update' = ForgetUpdates
              /\ rt_result' = <<"stop_streaming", "True">>
         ELSE /\ rt_result' = <<"stop_streaming", "False">>
              /\ UNCHANGED <<rt_streamer, conns, active_subscriptions,
                             subs_issued, requested, streaming_active,
                             streaming_symbols, last_update>>
    /\ UNCHANGED <<rt_monitors, rt_backend, rt_client, rt_restarts, data_handlers>>
    /\ UNCHANGED <<pc, outer, arg, handle, result, afterStop, sawAlive,
                   joinTimedOut, stopReport, raised, onlyStarts, timely>>
    /\ UNCHANGED <<svars, wvars>>

\* A call of RealTimeIntegration.stop_streaming() on a transport whose
\* stop() returns.
RTStopStreaming ==
    /\ RTStop(FALSE)
    /\ UNCHANGED dvars

\* The symbols of a list.
Range(q) == {q[i] : i \in 1..Len(q)}

\* handle_quote_update / handle_option_update, realtime_integration.py
\* lines 86 and 131: a message for a subscribed symbol stamps last_update.
RTUpdate(sym) ==
    /\ streaming_active
    /\ \E f \in Fields : Key(sym, f) \in active_subscriptions
    /\ last_update[sym] # "fresh"
    /\ last_update' = [last_update EXCEPT ![sym] = "fresh"]
    /\ UNCHANGED <<streaming_active, streaming_symbols, rt_monitors,
                   rt_result, rt_backend, rt_client, rt_restarts, dvars, rt_streamer,
                   active_subscriptions, data_handlers, subs_issued,
                   requested>>
    /\ UNCHANGED <<svars, cvars, wvars, tvars>>

\* The silence of a symbol, as the timedelta current_time - last_update_time
\* of line 292 holds it (days, seconds): "fresh" is at most a minute,
\* "stale" has a seconds component above 60, "wrapped" is one or more whole
\* days with a seconds component of at most 60.
Silences == {"fresh", "stale", "wrapped"}

\* The silence is longer than the 60 seconds of line 292.
SilenceOverTimeout(v) == v \in {"stale", "wrapped"}

\* The test of line 292, (current_time - last_update_time).seconds > 60:
\* timedelta.seconds is the seconds component alone, without the days.
SecondsOverTimeout(v) == v = "stale"

\* The test with the exemption of lines 287-289 left out.
MonitorSeesTimeoutOrMissing(v) == v = "none" \/ SecondsOverTimeout(v)

\* Lines 287-292 for one symbol: a symbol without an entry in last_update
\* is skipped (continue), one with an entry is put to the test of line 292.
MonitorSeesTimeout(v) == v # "none" /\ SecondsOverTimeout(v)

\* The loop of lines 286-303 finds a symbol to restart the stream for.
MonitorWouldRestart ==
    \E sym \in Range(streaming_symbols) : MonitorSeesTimeout(last_update[sym])

\* Time passes without a message for a symbol (realtime_integration.py
\* line 292): the seconds component passes 60, then a day completes and
\* it starts again from zero.
\* A day is far longer than the monitor's update_interval (line 305): a
\* running monitor has restarted the stream for the symbol before the day
\* completes.
RTUpdateAges(sym) ==
    /\ last_update[sym] \in Silences
    /\ (last_update[sym] = "stale" /\ streaming_active /\ rt_monitors > 0
            /\ sym \in Range(streaming_symbols))
          => rt_restarts > 0
    /\ last_update' = [last_update EXCEPT ![sym] =
                          CASE last_update[sym] = "fresh" -> "stale"
                            [] last_update[sym] = "stale" -> "wrapped"
                            [] OTHER -> "stale"]
    /\ UNCHANGED <<streaming_active, streaming_symbols, rt_monitors,
                   rt_result, rt_backend, rt_client, rt_restarts, dvars, rt_streamer,
                   active_subscriptions, data_handlers, subs_issued,
                   requested>>
    /\ UNCHANGED <<svars, cvars, wvars, tvars>>

\* _monitor_streaming, realtime_integration.py lines 282-303: a monitor
\* thread finds a symbol without a message for a minute and restarts the
\* stream: stop_streaming() on the data streamer, then
\* start_streaming(symbols=self.streaming_symbols).
RTMonitorRestart ==
    /\ rt_monitors > 0
    /\ streaming_active
    /\ MonitorWouldRestart
    /\ rt_restarts < MaxRestarts
    /\ rt_restarts' = rt_restarts + 1
    /\ HasStreaming /\ GetStreamer # NoneS
    /\ IF GetStreamer \in GoodClients THEN TransportStop(GetStreamer)
                                      ELSE UNCHANGED conns
    /\ rt_streamer' = GetStreamer
    /\ LET after == SubscribeAll(
                        PairList(streaming_symbols,
                                 SubscribedFields(<<FALSE, <<>>>>)),
                        {}, [k \in Keys |-> 0])
       IN /\ active_subscriptions' = after.active
          /\ subs_issued' = after.issued
    /\ requested' = PairSet(streaming_symbols,
                            SubscribedFields(<<FALSE, <<>>>>))
    /\ UNCHANGED <<streaming_active, streaming_symbols, last_update,
                   rt_monitors, rt_result, rt_backend, rt_client,
                   data_handlers, dvars>>
    /\ UNCHANGED <<svars, cvars, wvars>>

\* _monitor_streaming, line 282: a monitor thread finds streaming_active
\* false and ends.
RTMonitorExit ==
    /\ rt_monitors > 0
    /\ ~streaming_active
    /\ rt_monitors' = rt_monitors - 1
    /\ UNCHANGED <<streaming_active, streaming_symbols, last_update,
                   rt_result, rt_backend, rt_client, rt_restarts, dvars, rt_streamer,
                   active_subscriptions, data_handlers, subs_issued,
                   requested>>
    /\ UNCHANGED <<svars, cvars, wvars, tvars>>

NextRT ==
    \/ RTStartStreaming
    \/ RTStopStreaming
    \/ \E sym \in Symbols : RTUpdate(sym)
    \/ \E sym \in Symbols : RTUpdateAges(sym)
    \/ RTMonitorRestart
    \/ RTMonitorExit

\* The dashboard's RealTimeIntegration: calls of start_streaming and
\* stop_streaming, messages arriving, and the monitor threads.
SpecRT == InitRT /\ [][NextRT]_vars

\* A RealTimeIntegration over a RealTimeDataStreamer with MaxOps calls to
\* come: enough for a start, a stop and a second start.
InitCycles ==
    /\ InitSingleton
    /\ RTInitial
    /\ rt_backend = "RealTimeDataStreamer"
    /\ rt_client = client

NextCycles ==
    \/ RTStartStreaming
    \/ RTStopStreaming
    \/ RTMonitorExit

\* The dashboard switching streaming on and off, and the monitor threads.
SpecCycles == InitCycles /\ [][NextCycles]_vars

\* A data streamer built on the manager's client and called directly.
InitStreamer ==
    /\ InitSingleton
    /\ RTInitial
    /\ rt_backend = "RealTimeDataStreamer"
    /\ rt_client = client

NextStreamer ==
    \/ DSStartStreaming
    \/ DSStopStreaming

\* RealTimeDataStreamer: calls of start_streaming and stop_streaming.
SpecStreamer == InitStreamer /\ [][NextStreamer]_vars

\* ---------------------------------------------------------- dashboard
\* What toggle_realtime leaves alone.
NotDashboard ==
    <<tick, message, data, processed, subscribers, transport, price_data,
      volume_data, hpc, figure, ticks_in, received, reached>>

\* dashboard.py line 497: self.realtime_active = success.
ActiveAfterStartAssumed(success) == TRUE
ActiveAfterStart(success) == success

\* dashboard.py line 506: self.realtime_active = not success.
ActiveAfterStop(success) == ~success

\* toggle_realtime(value), dashboard.py lines 489-511: "on" while not
\* active starts streaming for current_symbols with the default fields,
\* "off" while active stops it, anything else only reports the interval.
\* The first value returned is the interval's `disabled` property.
ToggleRealtime(value) ==
    CASE value = "on" /\ ~dashboard.realtime_active ->
            /\ \E syms \in SymbolLists : RTStart(syms, <<FALSE, <<>>>>)
            /\ LET success == rt_result'[2] = "True"
               IN dashboard' =
                     [realtime_active |-> ActiveAfterStart(success),
                      interval_disabled |-> ~success]
            /\ UNCHANGED NotDashboard
      [] value = "off" /\ dashboard.realtime_active ->
            /\ \E raises \in BOOLEAN : RTStop(raises)
            /\ LET success == rt_result'[2] = "True"
               IN dashboard' =
                     [realtime_active |-> ActiveAfterStop(success),
                      interval_disabled |-> success]
            /\ UNCHANGED NotDashboard
      [] OTHER ->
            /\ dashboard' = [dashboard EXCEPT
                                !.interval_disabled = (value = "off")]
            /\ UNCHANGED NotDashboard
            /\ UNCHANGED <<streaming_active, streaming_symbols, last_update,
                           rt_monitors, rt_result, rt_backend, rt_client,
                           rt_restarts, rt_streamer, active_subscriptions,
                           data_handlers, subs_issued, requested>>
            /\ UNCHANGED <<svars, cvars, wvars, tvars>>

\* The values of the realtime-toggle RadioItems, dashboard.py lines
\* 115-123.
ToggleValues == {"on", "off"}

\* A Dashboard over a data manager whose realtime_data is the singleton or
\* a RealTimeDataStreamer.
InitDashboard ==
    /\ InitSingleton
    /\ RTInitial
    /\ rt_backend \in {"StreamerSingleton", "RealTimeDataStreamer"}
    /\ rt_client = client

NextDashboard ==
    \/ \E value \in ToggleValues : ToggleRealtime(value)
    \/ RTMonitorExit

\* The dashboard's real-time toggle being switched.
SpecDashboard == InitDashboard /\ [][NextDashboard]_vars

\* ------------------------------------------------ callbacks and dispatch
\* Callbacks a caller may register, and the longest list of one data type.
Callbacks == {"cb1", "cb2"}
MaxHandlers == 2
\* Messages handed to the handlers in one run.
MaxTicks == 2

\* A direct call of RealTimeDataStreamer.register_handler(data_type,
\* callback), realtime.py lines 300-322: the callback is appended to the
\* list of the data type and True is returned.
RegisterCall ==
    /\ \E field \in Fields, cb \in Callbacks :
          /\ Len(data_handlers[field]) < MaxHandlers
          /\ data_handlers' = RegisterHandler(data_handlers, field, cb)
    /\ rt_result' = <<"register_handler", "True">>
    /\ UNCHANGED <<streaming_active, streaming_symbols, last_update,
                   rt_monitors, rt_backend, rt_client, rt_restarts, dvars,
                   rt_streamer, active_subscriptions, subs_issued,
                   requested>>
    /\ UNCHANGED <<svars, cvars, wvars, tvars>>

\* The loop of realtime.py lines 209-211 (and 290-292), inside the try of
\* the whole handler: the callbacks are called in list order; the first
\* one that raises ends the loop, the exception going to the handler's
\* `except Exception` of line 214 (295).
RECURSIVE CallInOrder(_, _)
CallInOrder(callbacks, raisers) ==
    IF callbacks = <<>> THEN <<>>
    ELSE IF Head(callbacks) \in raisers THEN <<Head(callbacks)>>
    ELSE <<Head(callbacks)>> \o CallInOrder(Tail(callbacks), raisers)

\* quote_handler / option_handler, realtime.py lines 161-217 and 219-298,
\* for one message: a message with neither key nor symbol is dropped (lines
\* 179-181); otherwise the callbacks of the handler's data type are called
\* with the dict built from the message.  raisers are the callbacks that
\* raise when called with this message.
HandleMessage(field, hasSymbol, raisers) ==
    LET called == IF hasSymbol THEN CallInOrder(data_handlers[field], raisers)
                               ELSE <<>>
        raisedNow == \E i \in 1..Len(called) : called[i] \in raisers
    IN /\ tick.n < MaxTicks
       /\ tick' = [n |-> tick.n + 1, field |-> field, symbol |-> hasSymbol,
                   raisers |-> raisers, delivered |-> called,
                   raised |-> raisedNow,
                   failed |-> [tick.failed EXCEPT ![field] = raisedNow]]
       /\ UNCHANGED <<message, data, processed, bvars, subscribers, transport>>
       /\ UNCHANGED <<streaming_active, streaming_symbols, last_update,
                      rt_monitors, rt_result, rt_backend, rt_client,
                      rt_restarts, rt_streamer, active_subscriptions,
                      data_handlers, subs_issued, requested>>
       /\ UNCHANGED <<svars, cvars, wvars, tvars>>

\* _process_data_item, realtime.py lines 122-129: a message of the stream
\* goes to quote_handler or to option_handler by its service.
ProcessDataItem ==
    \E field \in Fields, hasSymbol \in BOOLEAN, raisers \in SUBSET Callbacks :
        HandleMessage(field, hasSymbol, raisers)

NextDispatch ==
    \/ RegisterCall
    \/ ProcessDataItem

\* A RealTimeDataStreamer, callers registering callbacks, and messages of
\* the stream handed to its handlers.
SpecDispatch == InitStreamer /\ [][NextDispatch]_vars

\* ------------------------------------------------------ field mappings
\* Largest number a message carries for a key.
MaxValue == 2

\* Python values with their type: an int and a str are never equal.
PyInt(n) == <<"int", n>>
PyStr(t) == <<"str", t>>

\* The values a message carries, and the value line 206 (287) gives a
\* target field none of whose names is in the message: the int 0, for
\* every entry of both tables.
Values == {PyInt(n) : n \in 1..MaxValue}
DefaultValue == PyInt(0)

\* Entries of the field_mappings tables of realtime.py lines 188-196 and
\* 263-277, in the order of the source: the target field and the names it
\* is looked up under.  The other entries of the tables have the same
\* shape and go through the same loop.
QuoteMappings ==
    <<[target |-> "lastPrice",
       possible_fields |-> <<"lastPrice", "last", "last_price">>]>>
OptionMappings ==
    <<[target |-> "lastPrice",
       possible_fields |-> <<"lastPrice", "last", "last_price">>],
      [target |-> "openInterest",
       possible_fields |-> <<"openInterest", "open_interest">>],
      [target |-> "putCall",
       possible_fields |-> <<"putCall", "option_type", "type">>],
      [target |-> "delta", possible_fields |-> <<"delta">>]>>

\* The keys a message may carry, and the messages.
MessageKeys == {"lastPrice", "last", "last_price", "openInterest",
                "open_interest", "putCall", "type", "delta"}
Messages == UNION {[K -> Values] : K \in SUBSET MessageKeys}

\* The inner loop of lines 201-204 without its break: every name present
\* overwrites the value, the last one stays.
RECURSIVE LastMatch(_, _, _)
LastMatch(msg, possible_fields, found) ==
    IF possible_fields = <<>> THEN found
    ELSE LastMatch(msg, Tail(possible_fields),
                   IF Head(possible_fields) \in DOMAIN msg
                     THEN msg[Head(possible_fields)] ELSE found)
ResolveLast(msg, possible_fields) ==
    LastMatch(msg, possible_fields, DefaultValue)

\* realtime.py lines 201-206 (and 282-287): the names are tried in list
\* order, the first one present in the message gives the value and ends
\* the loop; with none present the value is the int 0.
RECURSIVE FirstMatch(_, _)
FirstMatch(msg, possible_fields) ==
    IF possible_fields = <<>> THEN DefaultValue
    ELSE IF Head(possible_fields) \in DOMAIN msg
           THEN msg[Head(possible_fields)]
           ELSE FirstMatch(msg, Tail(possible_fields))
Resolve(msg, possible_fields) == FirstMatch(msg, possible_fields)

\* The outer loop of line 200 (281) over a table.
MapFields(msg, mappings) ==
    [t \in {mappings[i].target : i \in 1..Len(mappings)} |->
        LET i == CHOOSE i \in 1..Len(mappings) : mappings[i].target = t
        IN Resolve(msg, mappings[i].possible_fields)]

\* quote_handler / option_handler build data from the message.
Normalize(mappings) ==
    /\ data = NoData
    /\ data' = MapFields(message, mappings)
    /\ UNCHANGED <<tick, message, processed, bvars, subscribers, transport>>
    /\ UNCHANGED <<streaming_active, streaming_symbols, last_update,
                   rt_monitors, rt_result, rt_backend, rt_client,
                   rt_restarts, rt_streamer, active_subscriptions,
                   data_handlers, subs_issued, requested>>
    /\ UNCHANGED <<svars, cvars, wvars, tvars>>

QuoteNormalize == Normalize(QuoteMappings)
OptionNormalize == Normalize(OptionMappings)

\* A RealTimeDataStreamer with one message of the stream about to be
\* handled.
InitMappings ==
    /\ InitSingleton
    /\ RTFields
    /\ rt_backend = "RealTimeDataStreamer"
    /\ rt_client = client
    /\ message \in Messages

NextMappings ==
    \/ QuoteNormalize
    \/ OptionNormalize

\* The field mappings of the two handlers applied to every message.
SpecMappings == InitMappings /\ [][NextMappings]_vars

\* ------------------------------------------------------------ buffers
\* The limit of realtime_handler.py lines 87-88 and 103-104.
Capacity == 1000
\* Calls of handle_quote_update for one symbol in one run of SpecBuffer.
MaxAppends == 1001

\* Calls of handle_quote_update for any other symbol in the same run.
MaxOtherAppends == 2

\* The symbol whose buffer is filled in SpecBuffer, and the calls made
\* for a symbol.
BufferSymbol == "AAPL"
AppendsOf(sym) == IF sym = BufferSymbol THEN MaxAppends ELSE MaxOtherAppends

\* A dict with d[k] set to v.
Put(d, k, v) == [x \in DOMAIN d \cup {k} |-> IF x = k THEN v ELSE d[x]]

\* realtime_handler.py lines 70-72 and 84 (91-93 and 100): the list of the
\* symbol is created when the dict has none, then the point is appended.
AppendPoint(series, sym, point) ==
    Put(series, sym,
        Append(IF sym \in DOMAIN series THEN series[sym] ELSE <<>>, point))

\* The slice [:1000]: the first Capacity points.
KeepOldest(list) ==
    IF Len(list) > Capacity THEN SubSeq(list, 1, Capacity) ELSE list

\* realtime_handler.py lines 87-88 (103-104): a list longer than 1000 is
\* replaced by its slice [-1000:], the last Capacity points.
KeepNewest(list) ==
    IF Len(list) > Capacity
      THEN SubSeq(list, Len(list) - Capacity + 1, Len(list))
      ELSE list

\* The limit applied to the list of a symbol, with either slice.
TrimOldest(series, sym) == Put(series, sym, KeepOldest(series[sym]))
Trim(series, sym) == Put(series, sym, KeepNewest(series[sym]))

\* What every step inside RealTimeHandler leaves alone.
OnlyBuffers ==
    /\ UNCHANGED <<tick, message, data, processed, received, reached,
                   subscribers, transport, dashboard>>
    /\ UNCHANGED <<streaming_active, streaming_symbols, last_update,
                   rt_monitors, rt_result, rt_backend, rt_client,
                   rt_restarts, rt_streamer, active_subscriptions,
                   data_handlers, subs_issued, requested>>
    /\ UNCHANGED <<svars, cvars, wvars, tvars>>

\* RealTimeHandler.handle_quote_update(message) called with the next tick
\* of a symbol, up to line 84: the price point is appended.  A point is
\* written as the number of the tick among the ticks of its symbol.
QuoteAppendPrice(sym) ==
    /\ hpc = HandlerIdle
    /\ ticks_in[sym] < AppendsOf(sym)
    /\ ticks_in' = [ticks_in EXCEPT ![sym] = @ + 1]
    /\ price_data' = AppendPoint(price_data, sym, ticks_in[sym] + 1)
    /\ hpc' = [at |-> "price_appended", symbol |-> sym]
    /\ UNCHANGED <<volume_data, figure>>
    /\ OnlyBuffers

\* Lines 87-88.
QuoteTrimPrice ==
    /\ hpc.at = "price_appended"
    /\ price_data' = Trim(price_data, hpc.symbol)
    /\ hpc' = [hpc EXCEPT !.at = "price_done"]
    /\ UNCHANGED <<volume_data, figure, ticks_in>>
    /\ OnlyBuffers

\* Lines 91-100.
QuoteAppendVolume ==
    /\ hpc.at = "price_done"
    /\ volume_data' = AppendPoint(volume_data, hpc.symbol,
                                  ticks_in[hpc.symbol])
    /\ hpc' = [hpc EXCEPT !.at = "volume_appended"]
    /\ UNCHANGED <<price_data, figure, ticks_in>>
    /\ OnlyBuffers

\* Lines 103-104, and the return.
QuoteTrimVolume ==
    /\ hpc.at = "volume_appended"
    /\ volume_data' = Trim(volume_data, hpc.symbol)
    /\ hpc' = HandlerIdle
    /\ UNCHANGED <<price_data, figure, ticks_in>>
    /\ OnlyBuffers

\* A figure builder on another thread, realtime_handler.py lines 207-213
\* (288-294): it takes no lock and makes no copy before
\* pd.DataFrame(self.price_data[symbol]) reads the list as it is at that
\* moment.  Recorded: which figure, and whether a trace with more than
\* Capacity points was read.
ReadFigure(of, series) ==
    /\ figure' = [of |-> of,
                  over |-> \E sym \in DOMAIN series :
                              Len(series[sym]) > Capacity]
    /\ figure' # figure
    /\ UNCHANGED <<price_data, volume_data, hpc, ticks_in>>
    /\ OnlyBuffers

\* get_real_time_price_figure, lines 177-256.
GetPriceFigure == ReadFigure("price", price_data)
\* get_real_time_volume_figure, lines 258-336.
GetVolumeFigure == ReadFigure("volume", volume_data)

\* A RealTimeHandler of a dashboard over a working client.
InitBuffer ==
    /\ InitSingleton
    /\ client = "A"
    /\ RTInitial
    /\ rt_backend = "RealTimeDataStreamer"
    /\ rt_client = client

NextBuffer ==
    \/ \E sym \in Symbols : QuoteAppendPrice(sym)
    \/ QuoteTrimPrice
    \/ QuoteAppendVolume
    \/ QuoteTrimVolume
    \/ GetPriceFigure
    \/ GetVolumeFigure

\* The streamer's thread calling handle_quote_update for a symbol, and the
\* dashboard's thread building figures.
SpecBuffer == InitBuffer /\ [][NextBuffer]_vars

\* -------------------------------------------- from transport to buffer
\* Quote ticks the transport delivers in one run of SpecChain.
MaxDeliveries == 3

\* The keys of the dict quote_handler builds and hands to the callbacks
\* (realtime.py lines 184-206): timestamp, symbol and the target fields.
NormalizedKeys ==
    {"timestamp", "symbol", "lastPrice", "bidPrice", "askPrice",
     "totalVolume", "openPrice", "highPrice", "lowPrice"}

\* message_handler, realtime_integration.py lines 169-188: a dict is
\* routed by its 'data' key, else by its 'content' key, else it is logged
\* as unrecognized and nothing is called.
MessageRoute(keys) ==
    IF "data" \in keys THEN "data"
    ELSE IF "content" \in keys THEN "content"
    ELSE "unrecognized"

\* The entries of a list of callbacks that are cb.
CountOf(callbacks, cb) ==
    Cardinality({i \in 1..Len(callbacks) : callbacks[i] = cb})

\* n calls of RealTimeHandler.handle_quote_update with the same point.
RECURSIVE AppendTimes(_, _, _, _)
AppendTimes(series, sym, point, n) ==
    IF n = 0 THEN series
    ELSE AppendTimes(Trim(AppendPoint(series, sym, point), sym),
                     sym, point, n - 1)

\* The transport hands a quote tick of a subscribed symbol to
\* default_handler (realtime.py lines 78-113), on its own thread:
\* _process_data_item sends it to quote_handler, which builds the
\* normalized dict and calls the callbacks of data_handlers['QUOTE'] with
\* it (lines 209-211): the message_handler closures that
\* RealTimeIntegration.start_streaming registered.  Each routes the dict it
\* is given (realtime_integration.py lines 169-188); what is routed goes to
\* handle_quote_update (lines 64-98), which stamps last_update and calls
\* RealTimeHandler.handle_quote_update (realtime_handler.py lines 51-115).
TransportDelivers(sym) ==
    LET t == <<sym, ticks_in[sym] + 1>>
        calls == CountOf(data_handlers["QUOTE"], MessageHandler)
        through == IF MessageRoute(NormalizedKeys) = "unrecognized"
                     THEN 0 ELSE calls
        Times(n) == [i \in 1..n |-> t]
    IN /\ streaming_active
       /\ Key(sym, "QUOTE") \in active_subscriptions
       /\ Len(received) < MaxDeliveries
       /\ received' = Append(received, t)
       /\ ticks_in' = [ticks_in EXCEPT ![sym] = @ + 1]
       /\ reached' =
             [reached EXCEPT
                !["quote_handler"] = Append(@, t),
                !["message_handler"] = @ \o Times(calls),
                !["handle_quote_update"] = @ \o Times(through),
                !["RealTimeHandler"] = @ \o Times(through)]
       /\ last_update' = IF through > 0
                           THEN [last_update EXCEPT ![sym] = "fresh"]
                           ELSE last_update
       /\ price_data' = AppendTimes(price_data, sym, t[2], through)
       /\ volume_data' = AppendTimes(volume_data, sym, t[2], through)
       /\ UNCHANGED <<tick, message, data, processed, hpc, figure,
                      subscribers, transport, dashboard>>
       /\ UNCHANGED <<streaming_active, streaming_symbols, rt_monitors,
                      rt_result, rt_backend, rt_client, rt_restarts,
                      rt_streamer, active_subscriptions, data_handlers,
                      subs_issued, requested>>
       /\ UNCHANGED <<svars, cvars, wvars, tvars>>

\* A dashboard over a RealTimeDataStreamer on the manager's client.
InitChain ==
    /\ InitSingletonCalls(MaxCalls)
    /\ RTInitial
    /\ rt_backend = "RealTimeDataStreamer"
    /\ rt_client = client

NextChain ==
    \/ RTStartStreaming
    \/ \E sym \in Symbols : TransportDelivers(sym)

\* Streaming started through RealTimeIntegration and the transport
\* delivering quote ticks.
SpecChain == InitChain /\ [][NextChain]_vars

\* ------------------------------------------- concurrent subscriptions
\* What the steps of start_streaming leave alone.
OnlySubscriptions ==
    /\ UNCHANGED <<tick, message, data, processed, bvars, transport>>
    /\ UNCHANGED <<streaming_active, streaming_symbols, last_update,
                   rt_monitors, rt_backend, rt_client, rt_restarts,
                   data_handlers>>
    /\ UNCHANGED <<pc, outer, arg, handle, result, afterStop, sawAlive,
                   joinTimedOut, stopReport, raised, onlyStarts, timely>>
    /\ UNCHANGED <<svars, wvars, tvars>>

\* start_streaming(symbols, fields), realtime.py lines 336-357, on thread
\* t: no handler, the transport from get_streamer, False without one, else
\* the two loops begin.  The method takes no lock.
SubBegin(t) ==
    /\ subscribers[t].at = "idle"
    /\ opsLeft > 0
    /\ opsLeft' = opsLeft - 1
    /\ rt_streamer' = GetStreamer
    /\ \E syms \in SymbolLists, f \in FieldArgs :
          IF BackendStartOk
            THEN /\ subscribers' =
                       [subscribers EXCEPT ![t] =
                           [at |-> "check",
                            todo |-> PairList(syms, SubscribedFields(f))]]
                 /\ requested' =
                       requested \cup PairSet(syms, SubscribedFields(f))
                 /\ UNCHANGED rt_result
            ELSE /\ rt_result' = <<"start_streaming", "False">>
                 /\ UNCHANGED <<subscribers, requested>>
    /\ UNCHANGED <<active_subscriptions, subs_issued>>
    /\ OnlySubscriptions

\* The key of the pair a thread is at.
CurrentKey(t) == Key(Head(subscribers[t].todo)[1], Head(subscribers[t].todo)[2])

\* Lines 357-360, and 429-430 when the loops are over: the next pair is
\* tested against active_subscriptions.
SubCheck(t) ==
    /\ subscribers[t].at = "check"
    /\ IF subscribers[t].todo = <<>>
         THEN /\ subscribers' = [subscribers EXCEPT ![t] = NotSubscribing]
              /\ rt_result' = <<"start_streaming", "True">>
         ELSE /\ subscribers' =
                    [subscribers EXCEPT ![t] =
                        IF AlreadySubscribed(active_subscriptions,
                                             CurrentKey(t))
                          THEN [at |-> "check", todo |-> Tail(@.todo)]
                          ELSE [@ EXCEPT !.at = "subscribe"]]
              /\ UNCHANGED rt_result
    /\ UNCHANGED <<opsLeft, rt_streamer, active_subscriptions, subs_issued,
                   requested>>
    /\ OnlySubscriptions

\* Lines 361-420: the subscribe call on the transport.
SubIssue(t) ==
    /\ subscribers[t].at = "subscribe"
    /\ subs_issued' = [subs_issued EXCEPT ![CurrentKey(t)] = @ + 1]
    /\ subscribers' = [subscribers EXCEPT ![t].at = "record"]
    /\ UNCHANGED <<opsLeft, rt_streamer, rt_result, active_subscriptions,
                   requested>>
    /\ OnlySubscriptions

\* Line 422: self.active_subscriptions.add(subscription).
SubRecord(t) ==
    /\ subscribers[t].at = "record"
    /\ active_subscriptions' =
          RecordSubscription(active_subscriptions, CurrentKey(t))
    /\ subscribers' = [subscribers EXCEPT ![t] =
                          [at |-> "check", todo |-> Tail(@.todo)]]
    /\ UNCHANGED <<opsLeft, rt_streamer, rt_result, subs_issued, requested>>
    /\ OnlySubscriptions

\* A RealTimeDataStreamer with MaxCalls calls of start_streaming to come.
InitSubscribe ==
    /\ InitSingletonCalls(MaxCalls)
    /\ RTInitial
    /\ rt_backend = "RealTimeDataStreamer"
    /\ rt_client = client

NextSubscribe ==
    \E t \in SubThreads :
        \/ SubBegin(t)
        \/ SubCheck(t)
        \/ SubIssue(t)
        \/ SubRecord(t)

\* Threads calling start_streaming of one RealTimeDataStreamer.
SpecSubscribe == InitSubscribe /\ [][NextSubscribe]_vars

\* ------------------------------------------- transports and methods
\* Lines 368-374 and 396-402: whether the streamer object has one of the
\* names looked for, for a data type.
Known(methods, field) ==
    IF field = "QUOTE" THEN methods \cap QuoteKnown # {}
                       ELSE methods \cap OptionKnown # {}

\* Whether a subscribe primitive is called with the symbol.  With only
\* add_level_one_*_handler the handler is registered and the call of
\* level_one_*_subs that follows (lines 377, 405) raises AttributeError,
\* which lines 388 and 416 catch.
Sends(methods, field) ==
    IF field = "QUOTE" THEN methods \cap QuoteSubs # {}
                       ELSE methods \cap OptionSubs # {}

\* Lines 378-387 and 406-415: with none of the names, a warning is logged
\* and streamer.start(self.default_handler) is called when there is a
\* start method.
GenericStart(methods, field) ==
    ~Known(methods, field) /\ "start" \in methods

\* Lines 356-427 on a streamer object with the given methods: st holds the
\* active set, the calls of a subscribe primitive per pair, the data types
\* tried and whether start() was called.  Line 422 is reached on every
\* path through lines 362-420.
RECURSIVE SubscribeOn(_, _, _)
SubscribeOn(methods, pairs, st) ==
    IF pairs = <<>> THEN st
    ELSE LET field == Head(pairs)[2]
             k == Key(Head(pairs)[1], field)
         IN IF AlreadySubscribed(st.active, k)
              THEN SubscribeOn(methods, Tail(pairs), st)
              ELSE SubscribeOn(methods, Tail(pairs),
                      [active |-> RecordSubscription(st.active, k),
                       issued |-> IF Sends(methods, field)
                                    THEN [st.issued EXCEPT ![k] = @ + 1]
                                    ELSE st.issued,
                       asked |-> st.asked \cup {field},
                       started |-> st.started
                                     \/ GenericStart(methods, field)])

\* RealTimeDataStreamer.start_streaming(symbols, fields, handler),
\* realtime.py lines 337-436, on any streamer object.
TransportStartStreaming ==
    /\ opsLeft > 0
    /\ opsLeft' = opsLeft - 1
    /\ \E syms \in SymbolLists, f \in FieldArgs,
          h \in {NoHandler, MessageHandler} :
          LET after == SubscribeOn(transport.methods,
                          PairList(syms, SubscribedFields(f)),
                          [active |-> active_subscriptions,
                           issued |-> subs_issued,
                           asked |-> {},
                           started |-> transport.started])
          IN /\ data_handlers' =
                    IF h # NoHandler
                      THEN RegisterAll(data_handlers, HandlerFields(f), h)
                      ELSE data_handlers
             /\ rt_streamer' = GetStreamer
             /\ IF BackendStartOk
                  THEN /\ active_subscriptions' = after.active
                       /\ subs_issued' = after.issued
                       /\ transport' = [transport EXCEPT
                                           !.asked = after.asked,
                                           !.started = after.started]
                       /\ requested' = requested
                             \cup PairSet(syms, SubscribedFields(f))
                       /\ rt_result' = <<"start_streaming", "True">>
                  ELSE /\ rt_result' = <<"start_streaming", "False">>
                       /\ transport' = [transport EXCEPT !.asked = {}]
                       /\ UNCHANGED <<active_subscriptions, subs_issued,
                                      requested>>
    /\ UNCHANGED <<tick, message, data, processed, bvars, subscribers>>
    /\ UNCHANGED <<streaming_active, streaming_symbols, last_update,
                   rt_monitors, rt_backend, rt_client, rt_restarts>>
    /\ UNCHANGED <<pc, outer, arg, handle, result, afterStop, sawAlive,
                   joinTimedOut, stopReport, raised, onlyStarts, timely>>
    /\ UNCHANGED <<svars, wvars, tvars>>

\* RealTimeDataStreamer.stop_streaming(), lines 444-464, on any streamer
\* object: streamer.stop() and an empty active set.
TransportStopStreaming ==
    /\ opsLeft > 0
    /\ opsLeft' = opsLeft - 1
    /\ BackendStop
    /\ transport' = IF BackendStartOk
                      THEN [transport EXCEPT !.started = FALSE]
                      ELSE transport
    /\ rt_result' = <<"stop_streaming",
                      IF BackendStartOk THEN "True" ELSE "False">>
    /\ UNCHANGED <<tick, message, data, processed, bvars, subscribers>>
    /\ UNCHANGED <<streaming_active, streaming_symbols, last_update,
                   rt_monitors, rt_backend, rt_client, rt_restarts,
                   data_handlers>>
    /\ UNCHANGED <<pc, outer, arg, handle, result, afterStop, sawAlive,
                   joinTimedOut, stopReport, raised, onlyStarts, timely>>
    /\ UNCHANGED <<svars, wvars>>

\* A RealTimeDataStreamer whose client hands out a streamer object with
\* any of the shapes.
InitTransport ==
    /\ InitSingletonCalls(MaxCalls)
    /\ RTFieldsBut
    /\ message = NoMessage
    /\ subscribers = [t \in SubThreads |-> NotSubscribing]
    /\ \E methods \in TransportShapes :
          transport = TransportWith(methods)
    /\ rt_backend = "RealTimeDataStreamer"
    /\ rt_client = client

NextTransport ==
    \/ TransportStartStreaming
    \/ TransportStopStreaming

\* RealTimeDataStreamer over streamer objects of any shape.
SpecTransport == InitTransport /\ [][NextTransport]_vars

\* ------------------------------------------------------------ batches
\* Longest data / content list of one message.
MaxBatch == 3

\* The items of a list: a dict whose service names quotes or options, a
\* dict without 'service', a str (`'service' in item` is a substring test
\* and False), and a value such as None or a number, for which
\* `'service' in item` raises TypeError.
WellFormed == {"quote", "option"}
ItemKinds == WellFormed \cup {"no_service", "text", "number"}
Raises(kind) == kind = "number"
Batches == UNION {[1..n -> ItemKinds] : n \in 0..MaxBatch}
BatchMessages == [list : {"data", "content"}, items : Batches]

\* The positions of the well-formed items among the first upto items.
HandledUpTo(items, upto) ==
    SelectSeq([i \in 1..upto |-> i], LAMBDA i : items[i] \in WellFormed)

\* A loop that calls _process_data_item / _process_content_item for each
\* item (realtime.py lines 95-96 and 102-103; realtime_integration.py
\* lines 175-176): the test of 'service' is inside the callee's own try
\* (realtime.py lines 122-136 and 145-159, realtime_integration.py lines
\* 231-246), so an item that raises is logged and the loop goes on.
PerItemTry(items) == HandledUpTo(items, Len(items))

\* The loop of realtime_integration.py lines 180-186 over a content list:
\* `if 'service' in content_item` is evaluated in the loop itself, inside
\* the one try of message_handler; an item that raises ends the loop at
\* the except of line 191.
WholeLoopTry(items) ==
    LET stops == {i \in 1..Len(items) : Raises(items[i])}
        upto == IF stops = {} THEN Len(items)
                ELSE (CHOOSE i \in stops : \A h \in stops : i <= h) - 1
    IN HandledUpTo(items, upto)

HandleBatch(by, handled) ==
    /\ processed = NoBatch
    /\ processed' = [by |-> by, items |-> handled]
    /\ UNCHANGED <<tick, message, data, bvars, subscribers, transport>>
    /\ UNCHANGED <<streaming_active, streaming_symbols, last_update,
                   rt_monitors, rt_result, rt_backend, rt_client,
                   rt_restarts, rt_streamer, active_subscriptions,
                   data_handlers, subs_issued, requested>>
    /\ UNCHANGED <<svars, cvars, wvars, tvars>>

\* RealTimeDataStreamer.default_handler, realtime.py lines 78-113.
DefaultHandler == HandleBatch("default_handler", PerItemTry(message.items))

\* The message_handler closure of RealTimeIntegration.start_streaming,
\* realtime_integration.py lines 164-194.
MessageHandlerCall ==
    HandleBatch("message_handler",
                IF message.list = "data" THEN PerItemTry(message.items)
                                         ELSE WholeLoopTry(message.items))

\* One message with a data or content list about to be handled.
InitBatch ==
    /\ InitSingleton
    /\ RTFields
    /\ rt_backend = "RealTimeDataStreamer"
    /\ rt_client = client
    /\ message \in BatchMessages

NextBatch ==
    \/ DefaultHandler
    \/ MessageHandlerCall

\* The two batch handlers applied to every message.
SpecBatch == InitBatch /\ [][NextBatch]_vars

\* ------------------------------------------------- option underlying
\* Longest option symbol, and the characters of symbols: letters and the
\* separator of symbol.split('_') (realtime.py line 250).
MaxSymLen == 3
Separator == "_"
Chars == {"A", "B", Separator}
SymbolStrings == UNION {[1..n -> Chars] : n \in 0..MaxSymLen}

\* The text "UNKNOWN" of line 255.
Unknown == <<"U", "N", "K", "N", "O", "W", "N">>

\* Option messages: with or without a key (the option symbol), with or
\* without an underlying, which may be the empty string.
OptionMessages ==
    UNION {[K -> SymbolStrings] : K \in SUBSET {"key", "underlying"}}

\* Python's str.split('_'): the parts between separators, at least one,
\* the parts themselves possibly empty.
RECURSIVE Split(_, _)
Split(str, part) ==
    IF str = <<>> THEN <<part>>
    ELSE IF Head(str) = Separator THEN <<part>> \o Split(Tail(str), <<>>)
    ELSE Split(Tail(str), Append(part, Head(str)))

\* realtime.py lines 249-255: parts = symbol.split('_'); the first part
\* when there is one, "UNKNOWN" otherwise.
DeriveUnderlying(symbol) ==
    LET parts == Split(symbol, <<>>)
    IN IF Len(parts) > 0 THEN parts[1] ELSE Unknown

\* option_handler, realtime.py lines 231-261: the symbol from the key; the
\* underlying from the message; a message without a symbol is dropped
\* (lines 244-246); an underlying that is missing or empty is derived from
\* the symbol.
OptionExtract ==
    /\ data = NoData
    /\ LET symbol == IF "key" \in DOMAIN message THEN message["key"]
                                                 ELSE <<>>
           underlying == IF "underlying" \in DOMAIN message
                           THEN message["underlying"] ELSE <<>>
       IN data' = IF symbol = <<>> THEN NoData
                  ELSE [symbol |-> symbol,
                        underlying |-> IF underlying # <<>> THEN underlying
                                       ELSE DeriveUnderlying(symbol)]
    /\ UNCHANGED <<tick, message, processed, bvars, subscribers, transport>>
    /\ UNCHANGED <<streaming_active, streaming_symbols, last_update,
                   rt_monitors, rt_result, rt_backend, rt_client,
                   rt_restarts, rt_streamer, active_subscriptions,
                   data_handlers, subs_issued, requested>>
    /\ UNCHANGED <<svars, cvars, wvars, tvars>>

\* A RealTimeDataStreamer with one option message about to be handled.
InitUnderlying ==
    /\ InitSingleton
    /\ RTFields
    /\ rt_backend = "RealTimeDataStreamer"
    /\ rt_client = client
    /\ message \in OptionMessages

\* option_handler applied to every option message.
SpecUnderlying == InitUnderlying /\ [][OptionExtract]_vars


\* ============================================================== claims
RECURSIVE SumConns(_)
SumConns(S) == IF S = {} THEN 0
               ELSE LET t == CHOOSE x \in S : TRUE
                    IN conns[t] + SumConns(S \ {t})
\* Transport connections started and not stopped.
StartedConnections == SumConns(GoodClients)

AllIdle == \A c \in Callers : pc[c] = "idle"

\* C1: however many threads call get_instance, with whatever client, at
\* most one object is ever constructed and every caller holds the same one.
C1_OneInstance ==
    /\ nConstructed <= 1
    /\ \A c1, c2 \in Callers :
          (handle[c1] # NoRef /\ handle[c2] # NoRef) => handle[c1] = handle[c2]

\* C1 witness: two threads are inside get_instance at once, with different
\* clients, both past __new__ and before __init__, and one object exists.
C1_Witness ==
    /\ nConstructed = 1
    /\ \E c1, c2 \in Callers :
          /\ c1 # c2
          /\ pc[c1] = "gi_init" /\ pc[c2] = "gi_init"
          /\ arg[c1] # arg[c2]

C3_OldWorkerGoneAfterStop ==
    \A c \in Callers :
        (timely /\ pc[c] = "start_sleep" /\ (afterStop \/ outer[c] = "set_client"))
            => LiveWorkers \subseteq {thread}

\* C4: when start() found an earlier worker alive, the new worker exists
\* only once the earlier one has exited.
C4_NoSpawnWhileEarlierAlive ==
    \A c \in Callers :
        (pc[c] = "start_sleep" /\ sawAlive[c] # NoRef) => ~Alive(sawAlive[c])

\* C5: a start_streaming call made while streaming is active returns
\* success and leaves the active flag, the symbol list, the transport, the
\* subscriptions and the monitor threads as they were.
C5_StartWhenActiveSucceeds ==
    [][(streaming_active /\ opsLeft' # opsLeft
            /\ rt_result'[1] = "start_streaming")
          => (/\ rt_result'[2] = "True"
              /\ UNCHANGED <<streaming_active, streaming_symbols, rt_streamer,
                             active_subscriptions, rt_monitors>>)]_vars

\* The four fields stop() is to leave cleared.
FieldsStopped ==
    /\ ~is_running
    /\ streamer = NoneS
    /\ thread = NoRef
    /\ event_loop = NoRef

\* is_running(), lines 376-377.
IsRunning == is_running /\ streamer # NoneS

\* C6: after stop() has returned, and until another call is made, the
\* running flag is false, is_running() reports false, and no transport,
\* thread or event-loop reference is held.
C6_StopLeavesNothing ==
    (timely /\ afterStop /\ AllIdle) => (FieldsStopped /\ ~IsRunning)

\* The step with which caller c returns from stop().
StopReturns(c) == pc[c] = "stop_exit" /\ pc'[c] # "stop_exit" /\ timely'

\* C7: a stop() whose join timed out tells its caller that the worker did
\* not terminate cleanly.
C7_TimeoutReported ==
    [][\A c \in Callers :
          (StopReturns(c) /\ joinTimedOut[c])
              => stopReport'[c] = "did not terminate cleanly"]_vars

\* A step of stop() by caller c.
StopStep(c) ==
    \/ pc[c] \in {"idle", "stop_enter"} /\ pc'[c] = "stop_streamer"
    \/ pc[c] \in {"stop_streamer", "stop_join", "stop_exit"} /\ pc'[c] # pc[c]

\* C8: every step of a stop() that runs on a singleton that is already
\* stopped raises nothing and leaves the singleton stopped and every
\* transport as it was.
C8_SecondStopIsNoOp ==
    [][\A c \in Callers :
          (StopStep(c) /\ FieldsStopped)
              => (FieldsStopped' /\ ~raised'[c] /\ UNCHANGED conns)]_vars

\* C8 witness: a stop() that began right after another stop() completed, on
\* a singleton that was still stopped, is about to return.
C8_Witness ==
    /\ afterStop
    /\ FieldsStopped
    /\ \E c \in Callers : pc[c] = "stop_exit"

\* C9: when a set_client(new) that restarted the singleton returns, the
\* transport held, if any, is the one of the new client.
C9_TransportFromNewClient ==
    [][\A c \in Callers :
          (/\ pc[c] = "start_sleep" /\ outer[c] = "set_client"
           /\ pc'[c] = "idle" /\ timely')
              => streamer' \in {NoneS, InitializeStreamer(client')}]_vars

\* C10: once the worker of a start() under a client that cannot open a
\* transport has ended, start() has returned None and the singleton is not
\* running, holds no transport and has no live worker.
C10_FailedStartEndsStopped ==
    (/\ timely /\ AllIdle
     /\ thread # NoRef /\ wpc[thread] = "done" /\ wlocal[thread] = NoneS
     /\ client \notin GoodClients)
        => (/\ result = NoneS
            /\ ~is_running
            /\ streamer = NoneS
            /\ LiveWorkers = {})

\* C11: the recorded subscription set is exactly the set of distinct
\* (symbol, data type) pairs handed to start_streaming since the last
\* stop_streaming, one entry per pair.
C11_SubscriptionsAreUnion ==
    /\ active_subscriptions = {Key(p[1], p[2]) : p \in requested}
    /\ Cardinality(active_subscriptions) = Cardinality(requested)

\* C11 witness: after two calls, AAPL and MSFT quotes have been requested
\* and two subscriptions are active.
C11_Witness ==
    /\ opsLeft = MaxOps - 2
    /\ requested = {<<"AAPL", "QUOTE">>, <<"MSFT", "QUOTE">>}
    /\ Cardinality(active_subscriptions) = 2

\* C12: between two stop_streaming calls the transport's subscribe
\* primitive is called at most once per pair, and only for a pair that was
\* not active.
C12_OnlyIncrementalAdds ==
    [][\A k \in Keys :
          subs_issued'[k] > subs_issued[k]
              => (k \notin active_subscriptions /\ subs_issued'[k] = 1)]_vars

\* C12 witness: one call whose lists named the same pair twice (the handler
\* was registered twice for QUOTE) has issued one subscription.
C12_Witness ==
    /\ opsLeft = MaxOps - 1
    /\ Len(data_handlers["QUOTE"]) = 2
    /\ Cardinality(requested) = 1
    /\ \E k \in Keys : active_subscriptions = {k} /\ subs_issued[k] = 1

\* C13: a restart of the stream made by the monitor leaves every
\* subscription that was active before it active again, for every data
\* type, without a call of start_streaming in between.
C13_RestartReplaysSubscriptions ==
    [][rt_restarts' > rt_restarts
          => active_subscriptions \subseteq active_subscriptions']_vars

\* Streaming is active and a symbol of streaming_symbols has an entry in
\* last_update that is more than 60 seconds old.
SilentSymbol ==
    /\ streaming_active
    /\ rt_monitors > 0
    /\ \E sym \in Range(streaming_symbols) :
          /\ last_update[sym] # "none"
          /\ SilenceOverTimeout(last_update[sym])

\* C14: whenever streaming is active and a symbol with an entry in
\* last_update has been silent for more than 60 seconds, whatever the
\* length of the silence, the monitor's next check restarts the stream.
C14_SilenceRequestsRestart == SilentSymbol => MonitorWouldRestart

\* C15: the monitor restarts the stream only for a symbol that has an entry
\* in last_update; symbols without one never cause a restart.
C15_NoEntryNoRestart ==
    [][rt_restarts' > rt_restarts
          => \E sym \in Range(streaming_symbols) :
                /\ last_update[sym] # "none"
                /\ SecondsOverTimeout(last_update[sym])]_vars

\* The monitor has restarted the stream while one streamed symbol still
\* has no entry in last_update and another has been silent.
C15_Witness ==
    /\ rt_restarts > 0
    /\ streaming_active
    /\ streaming_symbols = <<"AAPL", "MSFT">>
    /\ last_update["AAPL"] = "none"
    /\ last_update["MSFT"] = "stale"


\* C16: a reconnect that could not open a new transport leaves the worker
\* running, to try again: it does not clear the running flag that keeps the
\* worker's loop alive.
C16_FailedReconnectKeepsWorker ==
    [][\A w \in Workers :
          (/\ wpc[w] = "rc_check" /\ wpc'[w] = "loop"
           /\ streamer = NoneS
           /\ timely')
              => is_running' = is_running]_vars


\* A message with a symbol has just been handed to a handler.
Dispatched == tick'.n > tick.n /\ tick'.symbol

\* C17: when a callback raises while a message is dispatched, every
\* callback registered for the data type, those after the raising one
\* included, is still called with that message.
C17_RaiseDoesNotSkipLater ==
    [][(Dispatched /\ tick'.raised)
          => tick'.delivered = data_handlers[tick'.field]]_vars

\* C18: after a message during which a callback raised, the next message
\* of the same data type is dispatched to every registered callback.
C18_NextTickReachesAll ==
    [][(Dispatched /\ tick.failed[tick'.field])
          => tick'.delivered = data_handlers[tick'.field]]_vars

\* C19: a register call returns True and appends exactly one entry to the
\* list of its data type, leaving the other lists alone, and every message
\* is delivered to all callbacks of its data type, and to no others, in
\* registration order.
C19_AppendAndDispatchInOrder ==
    [][/\ data_handlers' # data_handlers
          => /\ rt_result' = <<"register_handler", "True">>
             /\ \E field \in Fields, cb \in Callbacks :
                   /\ data_handlers'[field] = Append(data_handlers[field], cb)
                   /\ \A g \in Fields \ {field} :
                         data_handlers'[g] = data_handlers[g]
       /\ Dispatched => tick'.delivered = data_handlers[tick'.field]]_vars

\* C20: every target field of the dict a handler builds holds the value
\* of the first name of its list that is present in the message: with
\* lastPrice absent and last present it is the value of last, with both
\* present it is the value of lastPrice.
C20_FirstAliasWins ==
    DOMAIN data # {} =>
        /\ \A i \in 1..Len(OptionMappings) :
              LET t == OptionMappings[i].target
                  names == OptionMappings[i].possible_fields
              IN t \in DOMAIN data =>
                    \A j \in 1..Len(names) :
                        (/\ names[j] \in DOMAIN message
                         /\ \A h \in 1..(j - 1) :
                               names[h] \notin DOMAIN message)
                            => data[t] = message[names[j]]
        /\ ("lastPrice" \notin DOMAIN message /\ "last" \in DOMAIN message)
              => data["lastPrice"] = message["last"]
        /\ {"lastPrice", "last"} \subseteq DOMAIN message
              => data["lastPrice"] = message["lastPrice"]

\* A message without lastPrice whose last and last_price differ has been
\* handled, and the dict holds the value of last.
C20_Witness ==
    /\ DOMAIN data # {}
    /\ "lastPrice" \notin DOMAIN message
    /\ {"last", "last_price"} \subseteq DOMAIN message
    /\ message["last"] # message["last_price"]
    /\ data["lastPrice"] = message["last"]

\* The target fields of a table, and the text fields among them.
Targets(mappings) == {mappings[i].target : i \in 1..Len(mappings)}
TextFields == {"expirationDate", "putCall"}

\* The names of a target field in the option table.
NamesOf(t) ==
    LET i == CHOOSE i \in 1..Len(OptionMappings) : OptionMappings[i].target = t
    IN OptionMappings[i].possible_fields

\* C21: a dict built by a handler holds every target field of its table,
\* and a field none of whose names is in the message holds the default of
\* its kind: 0 for a numeric field, the empty string for a text field.
C21_SchemaStableDefaults ==
    DOMAIN data # {} =>
        /\ DOMAIN data \in {Targets(QuoteMappings), Targets(OptionMappings)}
        /\ \A t \in DOMAIN data :
              (\A j \in 1..Len(NamesOf(t)) :
                    NamesOf(t)[j] \notin DOMAIN message)
                  => data[t] = IF t \in TextFields THEN PyStr("")
                                                   ELSE PyInt(0)

\* The place of the first separator in a symbol, 0 when it has none.
FirstSeparator(symbol) ==
    IF \E i \in 1..Len(symbol) : symbol[i] = Separator
      THEN CHOOSE i \in 1..Len(symbol) :
              /\ symbol[i] = Separator
              /\ \A h \in 1..(i - 1) : symbol[h] # Separator
      ELSE 0

\* C22: for an option message without an underlying, the underlying is the
\* part of the symbol before its first separator, and "UNKNOWN" when the
\* symbol has no separator or nothing before it.
C22_UnderlyingDerivedOrUnknown ==
    (DOMAIN data # {} /\ "underlying" \notin DOMAIN message) =>
        LET at == FirstSeparator(data["symbol"])
        IN data["underlying"] =
              IF at > 1 THEN SubSeq(data["symbol"], 1, at - 1) ELSE Unknown

\* C23: whatever malformed items a data or content list holds, every
\* well-formed item of the list, before or after them, is handed on to its
\* handler.
C23_SiblingsStillProcessed ==
    processed.by # "none" =>
        processed.items =
            SelectSeq([i \in 1..Len(message.items) |-> i],
                      LAMBDA i : message.items[i] \in WellFormed)

\* The last min(n, Capacity) of the points 1..n, oldest first.
LastPoints(n) ==
    LET kept == IF n < Capacity THEN n ELSE Capacity
    IN [i \in 1..kept |-> n - kept + i]

\* C24: a symbol has no buffer before its first tick, and after n quote
\* updates its buffers hold exactly the last min(n, 1000) points in the
\* order of arrival.
C24_BufferHoldsLastPoints ==
    hpc = HandlerIdle =>
        \A sym \in Symbols :
            IF ticks_in[sym] = 0
              THEN sym \notin DOMAIN price_data /\ sym \notin DOMAIN volume_data
              ELSE /\ price_data[sym] = LastPoints(ticks_in[sym])
                   /\ volume_data[sym] = LastPoints(ticks_in[sym])

\* 1001 updates have been handled: 1000 points are kept and the first one
\* is gone.
C24_Witness ==
    /\ hpc = HandlerIdle
    /\ ticks_in["MSFT"] = 1
    /\ ticks_in[BufferSymbol] = Capacity + 1
    /\ Len(price_data[BufferSymbol]) = Capacity
    /\ price_data[BufferSymbol][1] = 2
    /\ price_data[BufferSymbol][Capacity] = Capacity + 1

\* C25: a figure builder running while ticks are appended never reads a
\* buffer of more than 1000 points.
C25_ReaderNeverSeesOverfull == ~figure.over

\* The ticks of one symbol in a sequence of ticks, in order.
OfSymbol(ticks, sym) == SelectSeq(ticks, LAMBDA t : t[1] = sym)

\* C26: for every symbol, each handler of the chain has been called with
\* the ticks of the symbol in the order the transport delivered them, and
\* the symbol's buffer holds them in that order.
C26_PerSymbolOrder ==
    \A sym \in Symbols :
        /\ \A h \in ChainHandlers :
              OfSymbol(reached[h], sym) = OfSymbol(received, sym)
        /\ ticks_in[sym] > 0 =>
              /\ sym \in DOMAIN price_data
              /\ price_data[sym] = LastPoints(ticks_in[sym])

\* A caller inside a call that blocks: the join of lines 94 and 349 on a
\* live thread, the sleep of line 103, the transport's stop of line 343.
InBlockingCall(c) ==
    \/ pc[c] = "start_join"
    \/ pc[c] = "start_sleep"
    \/ pc[c] = "stop_streamer" /\ streamer # NoneS
    \/ pc[c] = "stop_join" /\ Alive(thread)

\* C27: no thread holds the singleton's lock while it is joining the
\* worker, sleeping or stopping the transport.
C27_LockNotHeldWhileBlocking ==
    \A c \in Callers : InBlockingCall(c) => lockOwner # c

\* C28: when all concurrent start_streaming calls have returned, every
\* pair they were given has been sent to the transport exactly once and
\* the active set is the union of what was requested.
C28_ConcurrentSubscribesSerialized ==
    (\A t \in SubThreads : subscribers[t].at = "idle") =>
        /\ \A p \in requested : subs_issued[Key(p[1], p[2])] = 1
        /\ active_subscriptions = {Key(p[1], p[2]) : p \in requested}

\* C29: a start_streaming that reports success tried no data type for
\* which the streamer object has none of the known subscribe methods, and
\* no pair of such a data type is recorded as active.
C29_UnsupportedTransportRefused ==
    /\ rt_result = <<"start_streaming", "True">> =>
          \A field \in transport.asked : Known(transport.methods, field)
    /\ \A sym \in Symbols, field \in Fields :
          Key(sym, field) \in active_subscriptions =>
              Known(transport.methods, field)

\* C30: a stop_streaming of the integration that returns True leaves the
\* active subscription set empty, last_update without an entry, streaming
\* reported inactive and the symbol list empty.
C30_StopResetsState ==
    [][(opsLeft' < opsLeft /\ rt_result' = <<"stop_streaming", "True">>)
          => /\ active_subscriptions' = {}
             /\ \A s \in Symbols : last_update'[s] = "none"
             /\ ~streaming_active'
             /\ streaming_symbols' = <<>>]_vars

\* C30 witness: streaming was started, a symbol went silent, the monitor
\* restarted the stream, and stop_streaming then returned True.
C30_Witness ==
    /\ rt_result = <<"stop_streaming", "True">>
    /\ rt_restarts > 0
    /\ ~streaming_active
    /\ active_subscriptions = {}

\* C31: a worker leaves its loop for a reconnect exactly when the running
\* flag is set and the heartbeat is more than 30 seconds old; the reconnect
\* first stops the current transport, starts the new one afterwards, and
\* ends with a fresh heartbeat time, so the worker's next reconnect needs
\* another 30 seconds without a heartbeat.
C31_ReconnectOnStaleHeartbeat ==
    [][\A w \in Workers :
          /\ (wpc[w] = "loop" /\ wpc'[w] # "loop" /\ is_running)
                => (~heartbeatFresh /\ wpc'[w] = "rc_stop")
          /\ (wpc[w] = "rc_stop" /\ wpc'[w] # "rc_stop")
                => /\ wpc'[w] = "rc_init"
                   /\ streamer \in GoodClients => conns'[streamer] = 0
          /\ (wpc[w] = "rc_init" /\ wpc'[w] # "rc_init")
                => conns' = conns
          /\ (wpc[w] = "rc_check" /\ wpc'[w] # "rc_check")
                => (heartbeatFresh' /\ wpc'[w] = "loop")]_vars

\* C31 witness: a worker in a reconnect has stopped the transport and
\* started the new one, and is about to reset the heartbeat time.
C31_Witness ==
    \E w \in Workers :
        /\ wpc[w] = "rc_check"
        /\ is_running
        /\ streamer \in GoodClients
        /\ conns[streamer] = 1

\* C32: once the monitor has restarted the stream, its next check finds no
\* symbol over the timeout: another restart needs a further timeout
\* without a message.
C32_NoRestartOnNextCheck ==
    [][rt_restarts' > rt_restarts
          => \A sym \in Range(streaming_symbols') :
                ~MonitorSeesTimeout(last_update'[sym])]_vars

\* C33: a pair is in the active set only if a subscribe call for it went
\* through without an exception: on a streamer object that has one of the
\* names looked for, every active pair is one for which the subscribe
\* primitive that was called exists.
C33_ActiveOnlyIfSubscribed ==
    \A sym \in Symbols, field \in Fields :
        (Key(sym, field) \in active_subscriptions
            /\ Known(transport.methods, field))
          => Sends(transport.methods, field)

\* C34: when stop() returns after a join that found the worker ended, no
\* wait having been cut short while the worker was initialising, and no
\* worker is left alive, no transport is started and the transport
\* reference is empty.
C34_NothingStartedAfterStop ==
    [][\A c \in Callers :
          (/\ pc[c] = "stop_exit" /\ pc'[c] = "idle"
           /\ ~joinTimedOut[c] /\ timely
           /\ LiveWorkers = {})
             => (StartedConnections' = 0 /\ streamer' = NoneS)]_vars

\* C35: while a start() that replaced a live worker waits for the worker
\* it spawned, that worker has the running flag set once it has started
\* its transport.
C35_ReplacementRuns ==
    \A c \in Callers :
        (/\ pc[c] = "start_sleep"
         /\ sawAlive[c] # NoRef
         /\ Alive(thread)
         /\ wpc[thread] \in {"assign", "check", "loop"}
         /\ wlocal[thread] \in GoodClients)
            => is_running

\* C36: at most one monitor thread of the integration is alive.
C36_OneMonitor == rt_monitors <= 1

\* C37: a start_streaming that follows a successful stop_streaming and
\* registers the message handler for a data type finds no handler left
\* there from the earlier cycle, so a tick of that type reaches the
\* dashboard once.
C37_HandlerNotAccumulated ==
    [][\A field \in Fields :
          (/\ rt_result = <<"stop_streaming", "True">>
           /\ Len(data_handlers'[field]) > Len(data_handlers[field]))
              => data_handlers[field] = <<>>]_vars

\* C38: a start_streaming of the integration that returns False leaves
\* streaming_active, streaming_symbols and the monitor threads as they
\* were.
C38_FailedStartChangesNothing ==
    [][(opsLeft' < opsLeft /\ rt_result' = <<"start_streaming", "False">>)
          => UNCHANGED <<streaming_active, streaming_symbols,
                         rt_monitors>>]_vars

\* C39: the dashboard's realtime_active flag equals the integration's
\* streaming_active flag, and the update interval is disabled exactly when
\* realtime_active is false.
C39_DashboardFlagsAgree ==
    /\ dashboard.realtime_active = streaming_active
    /\ dashboard.interval_disabled = ~dashboard.realtime_active

\* C39 witness: streaming was switched on and a stop has failed, so the
\* dashboard still counts streaming as on with the interval enabled.
C39_Witness ==
    /\ rt_result = <<"stop_streaming", "False">>
    /\ dashboard.realtime_active
    /\ ~dashboard.interval_disabled
    /\ streaming_active

====
